---- MODULE Spec2Model ----
(***************************************************************************)
(* A model of four leaf components of async-opcua:                         *)
(*   - SequenceNumberHandle   (async-opcua-core, comms/sequence_number.rs) *)
(*   - Subscription, MonitoredItemMap and notification dispatch            *)
(*                            (async-opcua-client, subscriptions)          *)
(*   - PublishLimits          (async-opcua-client, subscriptions/mod.rs)   *)
(*   - legacy secret encryption / decryption                               *)
(*                            (async-opcua-crypto, user_identity.rs)       *)
(* Each component has its own specification (SpecSeq, SpecSub, SpecPub,    *)
(* SpecCrypto); the variables of the other components stay at their        *)
(* initial value.                                                          *)
(***************************************************************************)
EXTENDS Integers, Naturals, Sequences, FiniteSets, TLC

VARIABLES
    overflow_checks,  \* the build: TRUE = arithmetic overflow panics (debug),
                      \*            FALSE = it wraps (release)
    panicked,         \* the operation last called has panicked
    seq,              \* SequenceNumberHandle {is_legacy, current_value}
    seqHist,          \* history of the handle (origin, last call, state before it)
    sub,              \* Subscription {monitored_items, client_handles}
    delivered,        \* the message the last call delivered, if it was on_notification
    inbox,            \* the NotificationMessage in flight to the subscription
    calls,            \* callback invocations of the last on_notification, in order
    subHist,          \* last bookkeeping call on the subscription and the state before it
    limits,           \* PublishLimits
    limHist,          \* last call on the PublishLimits and the state before it
    token,            \* result of the last identity-token encryption / decryption
    rendering,        \* last Debug rendering of a client identity token
    server,           \* a server session: its subscriptions and their messages
    conn              \* last endpoint selection of a SessionBuilder

vars == <<overflow_checks, panicked, seq, seqHist, sub, delivered, inbox, calls,
          subHist, limits, limHist, token, rendering, server, conn>>

seqVars == <<seq, seqHist>>

subVars == <<sub, delivered, inbox, calls, subHist>>

pubVars == <<limits, limHist>>

cryptoVars == <<token>>

restVars == <<rendering, server, conn>>

\* nothing has been rendered, no session exists, no endpoint has been selected
RestIdle ==
    /\ rendering = [op |-> "none"]
    /\ server = [op |-> "none"]
    /\ conn = [op |-> "none"]

(***************************************************************************)
(* u32 arithmetic.  TLC's integers are 32-bit signed, so a u32 is kept as  *)
(* two 16-bit limbs <<hi, lo>> with value hi * 2^16 + lo; every value of   *)
(* the source keeps its real width.                                        *)
(***************************************************************************)
Limb == 2^16

U32(hi, lo) == <<hi, lo>>

\* a small number as a u32
U32Of(n) == <<n \div Limb, n % Limb>>

U32Max == <<Limb - 1, Limb - 1>>

U32Lt(a, b) == a[1] < b[1] \/ (a[1] = b[1] /\ a[2] < b[2])

U32Le(a, b) == a = b \/ U32Lt(a, b)

\* a + b modulo 2^32, and whether the exact sum does not fit
U32AddW(a, b) ==
    LET lo == a[2] + b[2]
        hi == a[1] + b[1] + (lo \div Limb)
    IN  <<hi % Limb, lo % Limb>>

U32AddOvf(a, b) == (a[1] + b[1] + ((a[2] + b[2]) \div Limb)) >= Limb

\* a - b modulo 2^32; the exact difference is negative iff U32Lt(a, b)
U32SubW(a, b) ==
    LET lo == a[2] - b[2]
        hi == a[1] - b[1] - (IF lo < 0 THEN 1 ELSE 0)
    IN  <<hi % Limb, lo % Limb>>

\* u32::MAX - n for a small n
U32MaxMinus(n) == U32SubW(U32Max, U32Of(n))

\* a % m (m > 0), by repeated subtraction
RECURSIVE U32Mod(_, _)
U32Mod(a, m) == IF U32Lt(a, m) THEN a ELSE U32Mod(U32SubW(a, m), m)

(***************************************************************************)
(* SequenceNumberHandle                                                    *)
(***************************************************************************)
\* the 1024 of `u32::MAX - 1024`
LegacyGap == 1024

max_value(is_legacy) == IF is_legacy THEN U32MaxMinus(LegacyGap) ELSE U32Max

min_value(is_legacy) == IF is_legacy THEN U32Of(1) ELSE U32Of(0)

SequenceNumberHandle_new(is_legacy) ==
    [is_legacy |-> is_legacy,
     current_value |-> IF is_legacy THEN U32Of(1) ELSE U32Of(0)]

new_at(is_legacy, value) ==
    [is_legacy |-> is_legacy,
     current_value |-> U32Mod(value, max_value(is_legacy))]

current(h) == h.current_value

set(h, value) == [h EXCEPT !.current_value = value]

\* a switch that compares against the bounds of the mode being left
set_is_legacy_old_bounds(h, is_legacy) ==
    LET cur == h.current_value
        mx  == max_value(h.is_legacy)
        mn  == min_value(h.is_legacy)
    IN  [is_legacy |-> is_legacy,
         current_value |->
            IF U32Lt(mx, cur)
            THEN U32AddW(mn, U32SubW(U32SubW(cur, mx), U32Of(1)))
            ELSE cur]

set_is_legacy(h, is_legacy) ==
    LET cur == h.current_value
        mx  == max_value(is_legacy)
        mn  == min_value(is_legacy)
    IN  [is_legacy |-> is_legacy,
         current_value |->
            IF U32Lt(mx, cur)
            THEN U32AddW(mn, U32SubW(U32SubW(cur, mx), U32Of(1)))
            ELSE cur]

\* a wrap that restarts at min_value whatever is left of the increment
increment_wrap_to_min(h, value, checks) ==
    LET cur == h.current_value
        mx  == max_value(h.is_legacy)
        mn  == min_value(h.is_legacy)
        remaining == U32SubW(mx, cur)
    IN  IF U32Lt(remaining, value)
        THEN [h |-> [h EXCEPT !.current_value = mn], panic |-> FALSE]
        ELSE [h |-> [h EXCEPT !.current_value = U32AddW(cur, value)],
              panic |-> FALSE]

\* a wrap that forgets the "- 1": the value after max_value is min_value + 1
increment_off_by_one(h, value, checks) ==
    LET cur == h.current_value
        mx  == max_value(h.is_legacy)
        mn  == min_value(h.is_legacy)
        remaining == U32SubW(mx, cur)
    IN  IF U32Lt(remaining, value)
        THEN [h |-> [h EXCEPT !.current_value =
                        U32SubW(U32AddW(mn, value), remaining)],
              panic |-> FALSE]
        ELSE [h |-> [h EXCEPT !.current_value = U32AddW(cur, value)],
              panic |-> FALSE]

\* increment(value) on handle h in a build with (checks) or without overflow
\* checks: the handle afterwards, and whether the call panicked.  Each
\* arithmetic step of the source is one step here, in the source's order:
\*   remaining = max_value - current_value
\*   ((min_value + value) - remaining) - 1     or     current_value + value
increment(h, value, checks) ==
    LET cur == h.current_value
        mx  == max_value(h.is_legacy)
        mn  == min_value(h.is_legacy)
        remaining == U32SubW(mx, cur)
        s1 == U32AddW(mn, value)
        s2 == U32SubW(s1, remaining)
        s3 == U32SubW(s2, U32Of(1))
        wrapOvf == U32AddOvf(mn, value) \/ U32Lt(s1, remaining) \/ U32Lt(s2, U32Of(1))
    IN  IF checks /\ U32Lt(mx, cur)
        THEN [h |-> h, panic |-> TRUE]
        ELSE IF U32Lt(remaining, value)
        THEN IF checks /\ wrapOvf
             THEN [h |-> h, panic |-> TRUE]
             ELSE [h |-> [h EXCEPT !.current_value = s3], panic |-> FALSE]
        ELSE IF checks /\ U32AddOvf(cur, value)
             THEN [h |-> h, panic |-> TRUE]
             ELSE [h |-> [h EXCEPT !.current_value = U32AddW(cur, value)],
                   panic |-> FALSE]

\* bound on the number of calls made on one handle
MaxSeqOps == 3

\* the u32 arguments tried: the small values and the values around both maxima
IncrementValues ==
    {U32Of(0), U32Of(1), U32Of(3), U32Of(1022),
     U32MaxMinus(2048), U32MaxMinus(1026), U32MaxMinus(1025), U32MaxMinus(1023),
     U32MaxMinus(1), U32Max}

StartValues ==
    {U32Of(0), U32Of(1), U32MaxMinus(1025), U32MaxMinus(1024),
     U32MaxMinus(1023), U32MaxMinus(1), U32Max}

NoSeqCall == [op |-> "none", arg |-> U32Of(0), flag |-> FALSE]

\* seqHist: how the handle was made, the calls since, the last call, the handle
\* before it, the sum of all increments modulo 2^32 and whether only increment
\* was called
SeqHist0(kind, h) ==
    [origin |-> kind, nops |-> 0, last |-> NoSeqCall, pre |-> h,
     sum |-> h.current_value, onlyIncrement |-> TRUE]

\* the other components, untouched by the handle's specification
SeqOthersIdle ==
    /\ RestIdle
    /\ sub = [monitored_items |-> <<>>, client_handles |-> <<>>]
    /\ delivered = [some |-> FALSE]
    /\ inbox = [some |-> FALSE]
    /\ calls = <<>>
    /\ subHist = [op |-> "none"]
    /\ limits = [op |-> "none"]
    /\ limHist = [op |-> "none"]
    /\ token = [op |-> "none"]

InitSeq ==
    /\ overflow_checks \in BOOLEAN
    /\ panicked = FALSE
    /\ \E is_legacy \in BOOLEAN :
          \/ /\ seq = SequenceNumberHandle_new(is_legacy)
             /\ seqHist = SeqHist0("new", seq)
          \/ \E v \in StartValues :
                /\ seq = new_at(is_legacy, v)
                /\ seqHist = SeqHist0("new_at", seq)
    /\ SeqOthersIdle

Increment ==
    /\ ~panicked
    /\ seqHist.nops < MaxSeqOps
    /\ \E value \in IncrementValues :
          LET r == increment(seq, value, overflow_checks)
          IN  /\ seq' = r.h
              /\ panicked' = r.panic
              /\ seqHist' = [seqHist EXCEPT
                                !.nops = @ + 1,
                                !.last = [op |-> "increment", arg |-> value,
                                          flag |-> FALSE],
                                !.pre = seq,
                                !.sum = U32AddW(@, value)]
    /\ UNCHANGED <<overflow_checks, subVars, pubVars, cryptoVars, restVars>>

SetIsLegacy ==
    /\ ~panicked
    /\ seqHist.nops < MaxSeqOps
    /\ \E b \in BOOLEAN :
          /\ seq' = set_is_legacy(seq, b)
          /\ seqHist' = [seqHist EXCEPT
                            !.nops = @ + 1,
                            !.last = [op |-> "set_is_legacy", arg |-> U32Of(0),
                                      flag |-> b],
                            !.pre = seq,
                            !.onlyIncrement = FALSE]
    /\ UNCHANGED <<overflow_checks, panicked, subVars, pubVars, cryptoVars, restVars>>

NextSeq == Increment \/ SetIsLegacy

SpecSeq == InitSeq /\ [][NextSeq]_vars

InRange(h) ==
    /\ U32Le(min_value(h.is_legacy), h.current_value)
    /\ U32Le(h.current_value, max_value(h.is_legacy))

\* C2: in every state reached from new(is_legacy) by increment and
\* set_is_legacy calls, min_value <= current <= max_value for the current mode.
C2_InRangeFromNew == seqHist.origin = "new" => InRange(seq)

\* C3: new_at(is_legacy, start) followed by one increment(delta) returns and
\* leaves current() inside [min_value, max_value] of the mode.
C3_NewAtIncrementInRange ==
    (seqHist.origin = "new_at" /\ seqHist.nops = 1 /\ seqHist.last.op = "increment")
        => (~panicked /\ InRange(seq))

\* C4: in legacy mode increment(n) from c sets current to c + n when
\* n <= max_value - c and otherwise to min_value + (n - (max_value - c) - 1),
\* both taken as exact numbers.
C4_LegacyIncrementFormula ==
    (seqHist.last.op = "increment" /\ seqHist.pre.is_legacy) =>
        LET c  == seqHist.pre.current_value
            n  == seqHist.last.arg
            mx == max_value(TRUE)
        IN  /\ ~panicked
            /\ IF U32Le(c, mx)
               THEN IF U32Le(n, U32SubW(mx, c))
                    THEN seq.current_value = U32AddW(c, n)
                    \* 1 + (n - (mx - c) - 1) = n - (mx - c), no borrow here
                    ELSE seq.current_value = U32SubW(n, U32SubW(mx, c))
               \* c above max_value: max_value - c is negative, the claimed
               \* value is n + (c - mx), which must still be a u32
               ELSE /\ ~U32AddOvf(n, U32SubW(c, mx))
                    /\ seq.current_value = U32AddW(n, U32SubW(c, mx))

\* C5: from new(false), after increment calls only, the call has returned and
\* current is the sum of all increments modulo 2^32.
C5_NonLegacySumMod2p32 ==
    (seqHist.origin = "new" /\ seqHist.onlyIncrement /\ ~seq.is_legacy)
        => (~panicked /\ seq.current_value = seqHist.sum)

\* C5 witness: increment(3) at u32::MAX - 1 has wrapped to 1
C5_Witness ==
    /\ seqHist.origin = "new" /\ seqHist.onlyIncrement /\ ~seq.is_legacy
    /\ seqHist.last.op = "increment" /\ seqHist.last.arg = U32Of(3)
    /\ seqHist.pre.current_value = U32MaxMinus(1)
    /\ seq.current_value = U32Of(1)

(***************************************************************************)
(* Subscription: monitored_items (id -> MonitoredItem), client_handles     *)
(* (client handle -> id), and the dispatch of a NotificationMessage.       *)
(* Both HashMaps are functions whose domain is the set of keys present.    *)
(***************************************************************************)
NoneValue == [some |-> FALSE]

Some(v) == [some |-> TRUE, value |-> v]

\* HashMap::insert(k, v) and HashMap::remove(k)
MapInsert(m, k, v) == (k :> v) @@ m

MapRemove(m, k) == [x \in (DOMAIN m) \ {k} |-> m[x]]

Subscription_new == [monitored_items |-> <<>>, client_handles |-> <<>>]

insert_existing_monitored_item(s, item) ==
    [monitored_items |-> MapInsert(s.monitored_items, item.id, item),
     client_handles  |-> MapInsert(s.client_handles, item.client_handle, item.id)]

\* the MonitoredItem built from a CreateMonitoredItem
MonitoredItemOf(i) ==
    [id |-> i.id,
     client_handle |-> i.client_handle,
     item_to_monitor |-> i.item_to_monitor,
     queue_size |-> i.queue_size,
     monitoring_mode |-> i.monitoring_mode,
     sampling_interval |-> i.sampling_interval,
     triggered_items |-> {},
     discard_oldest |-> i.discard_oldest,
     filter |-> i.filter]

RECURSIVE insert_monitored_items(_, _)
insert_monitored_items(s, items_to_create) ==
    IF items_to_create = <<>> THEN s
    ELSE insert_monitored_items(
            insert_existing_monitored_item(s, MonitoredItemOf(Head(items_to_create))),
            Tail(items_to_create))

\* a modification that is applied to every monitored item, listed or not
modify_monitored_items_every_item(s, items_to_modify) ==
    IF items_to_modify = <<>> THEN s
    ELSE [s EXCEPT !.monitored_items =
            [id \in DOMAIN s.monitored_items |->
                [s.monitored_items[id] EXCEPT
                    !.sampling_interval = Head(items_to_modify).sampling_interval,
                    !.queue_size = Head(items_to_modify).queue_size]]]

RECURSIVE modify_monitored_items(_, _)
modify_monitored_items(s, items_to_modify) ==
    IF items_to_modify = <<>> THEN s
    ELSE LET i == Head(items_to_modify)
             t == IF i.id \in DOMAIN s.monitored_items
                  THEN [s EXCEPT !.monitored_items[i.id] =
                            [@ EXCEPT !.sampling_interval = i.sampling_interval,
                                      !.queue_size = i.queue_size]]
                  ELSE s
         IN  modify_monitored_items(t, Tail(items_to_modify))

RECURSIVE delete_monitored_items(_, _)
delete_monitored_items(s, items_to_delete) ==
    IF items_to_delete = <<>> THEN s
    ELSE LET id == Head(items_to_delete)
             t == IF id \in DOMAIN s.monitored_items
                  THEN [monitored_items |-> MapRemove(s.monitored_items, id),
                        client_handles  |->
                            MapRemove(s.client_handles,
                                      s.monitored_items[id].client_handle)]
                  ELSE s
         IN  delete_monitored_items(t, Tail(items_to_delete))

\* MonitoredItemMap::get: client handle -> id -> item
MonitoredItemMap_get(s, client_handle) ==
    IF client_handle \in DOMAIN s.client_handles
    THEN LET id == s.client_handles[client_handle]
         IN  IF id \in DOMAIN s.monitored_items
             THEN Some(s.monitored_items[id])
             ELSE NoneValue
    ELSE NoneValue

(***************************************************************************)
(* A NotificationMessage is [notification_data |-> NoneValue or Some(seq   *)
(* of payloads)].  A payload is [kind, items]: kind is the type held by    *)
(* the extension object ("DataChange", "Event", "StatusChange", or "Other" *)
(* for any other type), items is the Option<Vec<..>> of monitored_items /  *)
(* events, each notification being its client_handle.  The value (or event *)
(* fields) a notification carries is modelled by its place <<p, n>> in the *)
(* message, so that every notification carries a different one.            *)
(***************************************************************************)
\* a dispatch loop that gives up at the first unknown client handle
RECURSIVE DispatchItems_stop_at_unknown(_, _, _, _, _)
DispatchItems_stop_at_unknown(s, cb, items, p, n) ==
    IF n > Len(items) THEN <<>>
    ELSE LET item == MonitoredItemMap_get(s, items[n])
         IN  IF item.some
             THEN <<[cb |-> cb, value |-> <<p, n>>, item |-> item.value]>>
                    \o DispatchItems_stop_at_unknown(s, cb, items, p, n + 1)
             ELSE <<>>

RECURSIVE DispatchItems(_, _, _, _, _)
DispatchItems(s, cb, items, p, n) ==
    IF n > Len(items) THEN <<>>
    ELSE LET item == MonitoredItemMap_get(s, items[n])
             this == IF item.some
                     THEN <<[cb |-> cb, value |-> <<p, n>>, item |-> item.value]>>
                     ELSE <<>>   \* warned about (data change) or ignored (event)
         IN  this \o DispatchItems(s, cb, items, p, n + 1)

\* a dispatch that reports a status change only while items are monitored
DispatchPayload_status_needs_items(s, obj, p) ==
    IF obj.kind = "DataChange"
    THEN IF obj.items.some
         THEN DispatchItems(s, "on_data_value", obj.items.value, p, 1)
         ELSE <<>>
    ELSE IF obj.kind = "Event"
    THEN IF obj.items.some
         THEN DispatchItems(s, "on_event", obj.items.value, p, 1)
         ELSE <<>>
    ELSE IF obj.kind = "StatusChange" /\ DOMAIN s.monitored_items # {}
    THEN <<[cb |-> "on_subscription_status_change", value |-> <<p, 0>>]>>
    ELSE <<>>

DispatchPayload(s, obj, p) ==
    IF obj.kind = "DataChange"
    THEN IF obj.items.some
         THEN DispatchItems(s, "on_data_value", obj.items.value, p, 1)
         ELSE <<>>
    ELSE IF obj.kind = "Event"
    THEN IF obj.items.some
         THEN DispatchItems(s, "on_event", obj.items.value, p, 1)
         ELSE <<>>
    ELSE IF obj.kind = "StatusChange"
    THEN <<[cb |-> "on_subscription_status_change", value |-> <<p, 0>>]>>
    ELSE <<>>

RECURSIVE DispatchPayloads(_, _, _)
DispatchPayloads(s, notifications, p) ==
    IF p > Len(notifications) THEN <<>>
    ELSE DispatchPayload(s, notifications[p], p)
            \o DispatchPayloads(s, notifications, p + 1)

\* the callbacks on_subscription_notification invokes, in order
on_subscription_notification(s, notification) ==
    IF ~notification.notification_data.some
    THEN <<>>
    ELSE DispatchPayloads(s, notification.notification_data.value, 1)

\* monitored-item ids and client handles used by the calls
ItemIds == {1, 2}

ClientHandles == {1, 2}

\* client handles carried by notifications: 1 may be the handle of an item,
\* 3 never is
NotificationHandles == {1, 3}

\* longest list given to insert / modify / delete_monitored_items
MaxBatch == 2

\* most notifications in one NotificationMessage, over all its payloads
MaxNotifications == 2

SeqsUpTo(S, n) == UNION {[1..k -> S] : k \in 0..n}

CreateMonitoredItems ==
    [id : ItemIds, client_handle : ClientHandles, item_to_monitor : {"node"},
     monitoring_mode : {"Reporting"}, queue_size : {1}, discard_oldest : {TRUE},
     sampling_interval : {0}, filter : {"null"}]

ModifyMonitoredItems == [id : ItemIds, sampling_interval : {100}, queue_size : {5}]

OptionalNotifications ==
    {NoneValue} \cup {Some(q) : q \in SeqsUpTo(NotificationHandles, MaxNotifications)}

Payloads ==
    [kind : {"DataChange", "Event"}, items : OptionalNotifications]
        \cup [kind : {"StatusChange", "Other"}, items : {NoneValue}]

NotificationCount(obj) == IF obj.items.some THEN Len(obj.items.value) ELSE 0

\* a keep-alive (no notification data), or up to two payloads
NotificationMessages ==
    {[notification_data |-> NoneValue]}
        \cup {[notification_data |-> Some(d)] :
                d \in {<<>>} \cup {<<a>> : a \in Payloads}
                             \cup {q \in Payloads \X Payloads :
                                        NotificationCount(q[1]) + NotificationCount(q[2])
                                            <= MaxNotifications}}

SubOthersIdle ==
    /\ RestIdle
    /\ seq = SequenceNumberHandle_new(FALSE)
    /\ seqHist = [origin |-> "none"]
    /\ limits = [op |-> "none"]
    /\ limHist = [op |-> "none"]
    /\ token = [op |-> "none"]

\* no operation of the subscription does arithmetic: the build is left fixed
InitSub ==
    /\ overflow_checks = FALSE
    /\ panicked = FALSE
    /\ sub = Subscription_new
    /\ delivered = NoneValue
    /\ inbox \in {Some(m) : m \in NotificationMessages}
    /\ calls = <<>>
    /\ subHist = [op |-> "none"]
    /\ SubOthersIdle

InsertMonitoredItems ==
    /\ \E items \in SeqsUpTo(CreateMonitoredItems, MaxBatch) :
          sub' = insert_monitored_items(sub, items)
    /\ delivered' = NoneValue
    /\ calls' = <<>>
    /\ UNCHANGED <<overflow_checks, panicked, inbox, subHist, seqVars, pubVars, cryptoVars,
                   restVars>>

ModifyMonitoredItemsCall ==
    /\ \E items \in SeqsUpTo(ModifyMonitoredItems, MaxBatch) :
          sub' = modify_monitored_items(sub, items)
    /\ delivered' = NoneValue
    /\ calls' = <<>>
    /\ UNCHANGED <<overflow_checks, panicked, inbox, subHist, seqVars, pubVars, cryptoVars,
                   restVars>>

DeleteMonitoredItems ==
    /\ \E ids \in SeqsUpTo(ItemIds, MaxBatch) :
          sub' = delete_monitored_items(sub, ids)
    /\ delivered' = NoneValue
    /\ calls' = <<>>
    /\ UNCHANGED <<overflow_checks, panicked, inbox, subHist, seqVars, pubVars, cryptoVars,
                   restVars>>

\* Subscription::on_notification: the message in flight arrives, and the
\* callback sees both maps as they are
OnNotification ==
    /\ inbox.some
    /\ calls' = on_subscription_notification(sub, inbox.value)
    /\ delivered' = inbox
    /\ inbox' = NoneValue
    /\ UNCHANGED <<overflow_checks, panicked, sub, subHist, seqVars, pubVars, cryptoVars,
                   restVars>>

NextSub ==
    \/ InsertMonitoredItems
    \/ ModifyMonitoredItemsCall
    \/ DeleteMonitoredItems
    \/ OnNotification

SpecSub == InitSub /\ [][NextSub]_vars

\* the payloads of the message just delivered (none for a keep-alive)
DeliveredData ==
    IF delivered.some /\ delivered.value.notification_data.some
    THEN delivered.value.notification_data.value
    ELSE <<>>

\* client handle h leads, through client_handles, to an item of monitored_items
Resolves(h) ==
    \E id \in DOMAIN sub.monitored_items :
        h \in DOMAIN sub.client_handles /\ sub.client_handles[h] = id

\* how often callback cb was invoked with the value of notification v
CallsWith(cb, v) ==
    Cardinality({i \in 1..Len(calls) : calls[i].cb = cb /\ calls[i].value = v})

CallbackOf(kind) == IF kind = "DataChange" THEN "on_data_value" ELSE "on_event"

\* C1: for every id and handle h, monitored_items holds an item under id with
\* client_handle h if and only if client_handles maps h to id.
C1_HandleMapIff ==
    \A id \in ItemIds, h \in ClientHandles :
        (id \in DOMAIN sub.monitored_items /\ sub.monitored_items[id].client_handle = h)
            <=> (h \in DOMAIN sub.client_handles /\ sub.client_handles[h] = id)

\* C6: after a dispatch, on_data_value (on_event) was invoked exactly once for
\* each notification of a DataChangeNotification (EventNotificationList) whose
\* client handle resolves, never for one whose handle is unknown, and for
\* nothing else; an unknown handle does not stop the notifications after it.
C6_DispatchOncePerKnownNotification ==
    delivered.some =>
        /\ \A p \in 1..Len(DeliveredData) :
              LET obj == DeliveredData[p]
              IN  (obj.kind \in {"DataChange", "Event"} /\ obj.items.some) =>
                      \A n \in 1..Len(obj.items.value) :
                          CallsWith(CallbackOf(obj.kind), <<p, n>>)
                              = IF Resolves(obj.items.value[n]) THEN 1 ELSE 0
        /\ \A i \in 1..Len(calls) :
              calls[i].cb \in {"on_data_value", "on_event"} =>
                  LET p == calls[i].value[1]
                      n == calls[i].value[2]
                  IN  /\ p \in 1..Len(DeliveredData)
                      /\ DeliveredData[p].kind \in {"DataChange", "Event"}
                      /\ calls[i].cb = CallbackOf(DeliveredData[p].kind)
                      /\ DeliveredData[p].items.some
                      /\ n \in 1..Len(DeliveredData[p].items.value)
                      /\ Resolves(DeliveredData[p].items.value[n])

\* C6 witness: a data change whose first notification has an unknown handle and
\* whose second has a known one: the second was dispatched
C6_Witness ==
    /\ delivered.some
    /\ \E p \in 1..Len(DeliveredData) :
          /\ DeliveredData[p].kind = "DataChange"
          /\ DeliveredData[p].items = Some(<<3, 1>>)
          /\ Resolves(1)
          /\ CallsWith("on_data_value", <<p, 2>>) = 1

\* C7: after a dispatch, on_subscription_status_change was invoked exactly once
\* for each StatusChangeNotification payload and for nothing else, whatever the
\* monitored items; a message without notification data invoked no callback.
C7_StatusChangeOncePerPayload ==
    delivered.some =>
        /\ \A p \in 1..Len(DeliveredData) :
              DeliveredData[p].kind = "StatusChange" =>
                  CallsWith("on_subscription_status_change", <<p, 0>>) = 1
        /\ \A i \in 1..Len(calls) :
              calls[i].cb = "on_subscription_status_change" =>
                  /\ calls[i].value[1] \in 1..Len(DeliveredData)
                  /\ DeliveredData[calls[i].value[1]].kind = "StatusChange"
        /\ (~delivered.value.notification_data.some => calls = <<>>)

\* C7 witness: a status change reached a subscription that monitors nothing
C7_Witness ==
    /\ delivered.some
    /\ DOMAIN sub.monitored_items = {}
    /\ \E p \in 1..Len(DeliveredData) :
          /\ DeliveredData[p].kind = "StatusChange"
          /\ CallsWith("on_subscription_status_change", <<p, 0>>) = 1

(***************************************************************************)
(* PublishLimits.  A Duration is [ms, frac]: whole milliseconds and the    *)
(* rest below a millisecond, in microseconds.  A usize is kept as the      *)
(* 64-bit two's complement number it reads as: v >= 0 is v itself and      *)
(* v < 0 is 2^64 + v, so that usize::MAX is -1.                            *)
(***************************************************************************)
Duration(ms, frac) == [ms |-> ms, frac |-> frac]

from_millis(ms) == Duration(ms, 0)

DurationZero == Duration(0, 0)

as_millis(d) == d.ms

DurationLt(a, b) == a.ms < b.ms \/ (a.ms = b.ms /\ a.frac < b.frac)

\* Ord::max
DurationMax(a, b) == IF DurationLt(a, b) THEN b ELSE a

MinRoundtripMillis == 10

MIN_MESSAGE_ROUNDTRIP == from_millis(MinRoundtripMillis)

REQUESTS_PER_SUBSCRIPTION == 2

UsizeMax == 0 - 1

RECURSIVE Log2(_)
Log2(n) == IF n < 2 THEN 0 ELSE 1 + Log2(n \div 2)

\* f32 has 24 significant bits
F32Bits == 24

\* `x as f32` for an integer 0 <= x: x rounded to 24 significant bits, ties to
\* the even mantissa (the result is kept as the integer it equals)
AsF32(x) ==
    IF x < 2^F32Bits THEN x
    ELSE LET unit == 2^(Log2(x) - (F32Bits - 1))
             q    == x \div unit
             r    == x % unit
             up   == (2 * r > unit) \/ (2 * r = unit /\ q % 2 = 1)
         IN  (IF up THEN q + 1 ELSE q) * unit

\* `(a / b).ceil() as usize` for two f32 that hold the integers a > 0, b >= 0:
\* the quotient is rounded to the nearest f32 (ties to even) before the ceiling.
\* b = 0 gives +inf, and the cast saturates to usize::MAX.
CeilOfF32Quotient(a, b) ==
    IF b = 0 THEN UsizeMax
    ELSE LET k == a \div b
             r == a % b
         IN  IF r = 0 THEN k
             ELSE IF k = 0 THEN 1
             ELSE IF k < 2^F32Bits
             THEN \* the f32 next to k from above is k + ulp <= k + 1; the quotient
                  \* rounds down to k iff r / b is below half an ulp (or on it,
                  \* with k the even neighbour)
                  LET e     == Log2(k)
                      m     == 2^(F32Bits - e)          \* 1 / (ulp / 2)
                      below == r <= (b - 1) \div m       \* r * m < b
                      tie   == b % m = 0 /\ r = b \div m \* r * m = b
                      even  == e < F32Bits - 1 \/ k % 2 = 0
                  IN  IF below \/ (tie /\ even) THEN k ELSE k + 1
             ELSE \* every f32 this large is an integer: round a / b to a
                  \* multiple of the ulp
                  LET ulp == 2^(Log2(k) - (F32Bits - 1))
                      d   == b * ulp
                      q   == a \div d
                      rr  == a % d
                      up  == (2 * rr > d) \/ (2 * rr = d /\ q % 2 = 1)
                  IN  (IF up THEN q + 1 ELSE q) * ulp

\* k * m on usize, for a count m >= 0 well below 2^31: the product, and whether
\* the exact product does not fit 64 bits
UsizeMul(k, m) ==
    IF k = UsizeMax
    THEN [val |-> 0 - m, overflow |-> m >= 2]   \* (2^64 - 1) * m = 2^64 * m - m
    ELSE [val |-> k * m, overflow |-> FALSE]

PublishLimits_new ==
    [message_roundtrip |-> MIN_MESSAGE_ROUNDTRIP,
     publish_interval |-> DurationZero,
     subscriptions |-> 0,
     min_publish_requests |-> 0,
     max_publish_requests |-> 0]

\* calculate_publish_limits: the limits afterwards and whether it panicked
\* (then min_publish_requests is already stored and max_publish_requests is not)
calculate_publish_limits(l, checks) ==
    LET mn      == l.subscriptions * REQUESTS_PER_SUBSCRIPTION
        withMin == [l EXCEPT !.min_publish_requests = mn]
        k       == CeilOfF32Quotient(AsF32(as_millis(l.message_roundtrip)),
                                     AsF32(as_millis(l.publish_interval)))
        prod    == UsizeMul(k, mn)
    IN  IF checks /\ prod.overflow
        THEN [l |-> withMin, panic |-> TRUE]
        ELSE [l |-> [withMin EXCEPT !.max_publish_requests = prod.val],
              panic |-> FALSE]

\* an update that stores the duration as given, without the lower clamp
update_message_roundtrip_unclamped(l, message_roundtrip, checks) ==
    calculate_publish_limits(
        [l EXCEPT !.message_roundtrip = message_roundtrip], checks)

update_message_roundtrip(l, message_roundtrip, checks) ==
    calculate_publish_limits(
        [l EXCEPT !.message_roundtrip =
                    DurationMax(message_roundtrip, MIN_MESSAGE_ROUNDTRIP)],
        checks)

update_subscriptions(l, subscriptions, publish_interval, checks) ==
    calculate_publish_limits(
        [l EXCEPT !.subscriptions = subscriptions,
                  !.publish_interval = publish_interval],
        checks)

\* 2^24 ms, the first roundtrip whose successor is no f32
F32ExactMillis == 2^F32Bits

RoundtripValues ==
    {DurationZero, Duration(3, 0), Duration(9, 999), from_millis(10),
     Duration(10, 500), from_millis(25), from_millis(F32ExactMillis),
     from_millis(F32ExactMillis + 1)}

IntervalValues ==
    {DurationZero, Duration(0, 500), from_millis(1), from_millis(3),
     from_millis(10), from_millis(F32ExactMillis)}

\* most subscriptions counted
MaxSubscriptions == 2

PubOthersIdle ==
    /\ RestIdle
    /\ seq = SequenceNumberHandle_new(FALSE)
    /\ seqHist = [origin |-> "none"]
    /\ sub = Subscription_new
    /\ delivered = NoneValue
    /\ inbox = NoneValue
    /\ calls = <<>>
    /\ subHist = [op |-> "none"]
    /\ token = [op |-> "none"]

InitPub ==
    /\ overflow_checks \in BOOLEAN
    /\ panicked = FALSE
    /\ limits = PublishLimits_new
    /\ limHist = [op |-> "new", pre |-> PublishLimits_new]
    /\ PubOthersIdle

UpdateMessageRoundtrip ==
    /\ ~panicked
    /\ \E d \in RoundtripValues :
          LET r == update_message_roundtrip(limits, d, overflow_checks)
          IN  /\ limits' = r.l
              /\ panicked' = r.panic
              /\ limHist' = [op |-> "update_message_roundtrip", d |-> d,
                             pre |-> limits]
    /\ UNCHANGED <<overflow_checks, seqVars, subVars, cryptoVars, restVars>>

UpdateSubscriptions ==
    /\ ~panicked
    /\ \E n \in 0..MaxSubscriptions, interval \in IntervalValues :
          LET r == update_subscriptions(limits, n, interval, overflow_checks)
          IN  /\ limits' = r.l
              /\ panicked' = r.panic
              /\ limHist' = [op |-> "update_subscriptions", n |-> n,
                             interval |-> interval, pre |-> limits]
    /\ UNCHANGED <<overflow_checks, seqVars, subVars, cryptoVars, restVars>>

NextPub == UpdateMessageRoundtrip \/ UpdateSubscriptions

SpecPub == InitPub /\ [][NextPub]_vars

\* the exact ceiling of a / b for integers a >= 0, b > 0
CeilDiv(a, b) == (a + b - 1) \div b

\* C8: after update_message_roundtrip and after update_subscriptions, with a
\* stored interval of at least 1 ms, the call has returned with
\* min = 2 * subscriptions and max = ceil(roundtrip_ms / interval_ms) * min.
C8_LimitsFormula ==
    (limHist.op \in {"update_message_roundtrip", "update_subscriptions"}
        /\ as_millis(limits.publish_interval) >= 1) =>
        /\ ~panicked
        /\ limits.min_publish_requests = 2 * limits.subscriptions
        /\ limits.max_publish_requests =
              CeilDiv(as_millis(limits.message_roundtrip),
                      as_millis(limits.publish_interval))
                  * limits.min_publish_requests

\* C9: the stored message_roundtrip is never below 10 ms, and
\* update_message_roundtrip(d) stores max(d, 10 ms) and leaves subscriptions
\* and publish_interval as they were.
C9_RoundtripClamped ==
    /\ ~DurationLt(limits.message_roundtrip, from_millis(10))
    /\ limHist.op = "update_message_roundtrip" =>
          /\ limits.message_roundtrip =
                (IF DurationLt(limHist.d, from_millis(10)) THEN from_millis(10)
                 ELSE limHist.d)
          /\ limits.subscriptions = limHist.pre.subscriptions
          /\ limits.publish_interval = limHist.pre.publish_interval

\* C9 witness: a roundtrip of 9.999 ms was stored as 10 ms while subscriptions
\* with a publish interval exist
C9_Witness ==
    /\ limHist.op = "update_message_roundtrip"
    /\ limHist.d = Duration(9, 999)
    /\ limits.message_roundtrip = from_millis(10)
    /\ limits.subscriptions = 2
    /\ limits.publish_interval = from_millis(3)

(***************************************************************************)
(* Legacy secret encryption (user_identity.rs).  Bytes are 0..255, byte    *)
(* strings are sequences.  RSA itself is abstract: a ciphertext records    *)
(* the key, the padding and the plaintext it was made from, and only the   *)
(* matching private key with the same padding gives the plaintext back.    *)
(***************************************************************************)
Ok(v) == [ok |-> TRUE, value |-> v]

Err(status) == [ok |-> FALSE, status |-> status]

\* the outcome of a call that panicked
Panic == [ok |-> FALSE, status |-> "panic"]

SecurityPolicies ==
    {"Unknown", "None", "Basic128Rsa15", "Basic256Sha256", "Aes128Sha256RsaOaep",
     "Aes256Sha256RsaPss"}

MessageSecurityModes == {"Invalid", "None", "Sign", "SignAndEncrypt"}

\* SecurityPolicy::from_str on a security policy URI: a URI is written as the
\* name of its policy, and any other URI as "Unknown"
SecurityPolicy_from_str(uri) == uri

\* SecurityPolicy::asymmetric_encryption_padding
asymmetric_encryption_padding(policy) ==
    IF policy = "Basic128Rsa15" THEN Some("Pkcs1")
    ELSE IF policy \in {"Basic256Sha256", "Aes128Sha256RsaOaep"} THEN Some("OaepSha1")
    ELSE IF policy = "Aes256Sha256RsaPss" THEN Some("OaepSha256")
    ELSE NoneValue

\* SecurityPolicy::asymmetric_encryption_algorithm
asymmetric_encryption_algorithm(policy) ==
    IF policy = "Basic128Rsa15" THEN Some("ENC_RSA_15")
    ELSE IF policy \in {"Basic256Sha256", "Aes128Sha256RsaOaep"} THEN Some("ENC_RSA_OAEP")
    ELSE IF policy = "Aes256Sha256RsaPss" THEN Some("ENC_RSA_OAEP_SHA256")
    ELSE NoneValue

\* bytes a ciphertext is longer than its plaintext (the least, PKCS#1 v1.5)
RsaOverhead == 11

calculate_cipher_text_size(plaintext_size) == plaintext_size + RsaOverhead

PublicKey_public_encrypt(key, data, padding) ==
    [key |-> key, padding |-> padding, data |-> data,
     size |-> calculate_cipher_text_size(Len(data))]

\* PrivateKey::private_decrypt into a buffer of the ciphertext's size: the
\* buffer, zero after the plaintext, and the plaintext's size
PrivateKey_private_decrypt(key, src, padding) ==
    IF src.key = key /\ src.padding = padding
    THEN Ok([dst |-> src.data \o [i \in 1..(src.size - Len(src.data)) |-> 0],
             actual_size |-> Len(src.data)])
    ELSE Err("BadDecodingError")

ByteBase == 256

\* write_u32 / read_u32: little endian; the u32 read is kept as two limbs
write_u32(n) ==
    <<n % ByteBase, (n \div ByteBase) % ByteBase,
      (n \div (ByteBase * ByteBase)) % ByteBase,
      (n \div (ByteBase * ByteBase * ByteBase)) % ByteBase>>

read_u32(bytes) == U32(bytes[3] + ByteBase * bytes[4], bytes[1] + ByteBase * bytes[2])

\* legacy_secret_encrypt: [u32 length][password][server_nonce], encrypted.
\* A layout with the nonce before the password:
legacy_secret_encrypt_nonce_first(password, server_nonce, server_cert, padding) ==
    Ok(Some(PublicKey_public_encrypt(
            server_cert,
            write_u32(Len(password) + Len(server_nonce)) \o server_nonce \o password,
            padding)))

legacy_secret_encrypt(password, server_nonce, server_cert, padding) ==
    LET plaintext_size == 4 + Len(password) + Len(server_nonce)
        src == write_u32(plaintext_size - 4) \o password \o server_nonce
    IN  Ok(Some(PublicKey_public_encrypt(server_cert, src, padding)))

SubSeqFrom(q, from) == SubSeq(q, from, Len(q))

\* legacy_secret_decrypt.  Indices are 0-based in the source and 1-based here.
\* plaintext_size is a u32 in two limbs; a size of 2^16 or more is larger than
\* any buffer of the model.
legacy_secret_decrypt(secret, server_nonce, server_key, padding) ==
    IF ~secret.some THEN Err("BadDecodingError")
    ELSE LET dec == PrivateKey_private_decrypt(server_key, secret.value, padding)
         IN  IF ~dec.ok THEN Err("BadDecodingError")
         ELSE
         LET dst0  == dec.value.dst
             size0 == dec.value.actual_size
             ps    == read_u32(dst0)
             small == ps[1] = 0
             padded == small /\ size0 > ps[2] + 4
             padding_bytes == SubSeqFrom(dst0, ps[2] + 4 + 1)
             dst  == IF padded THEN SubSeq(dst0, 1, ps[2] + 4) ELSE dst0
             actual_size == IF padded THEN ps[2] + 4 ELSE size0
             nonce_len == Len(server_nonce)
             nonce_begin == actual_size - nonce_len
         IN  IF padded /\ \E i \in 1..Len(padding_bytes) : padding_bytes[i] # 0
             THEN Err("BadDecodingError")
             ELSE IF ~small \/ ps[2] + 4 # actual_size
             THEN Err("BadDecodingError")
             \* actual_size - nonce_len below zero: a panic with overflow checks,
             \* and a slice far out of range without
             ELSE IF nonce_begin < 0 THEN Panic
             ELSE IF nonce_begin + nonce_len > Len(dst) THEN Panic
             ELSE IF SubSeq(dst, nonce_begin + 1, nonce_begin + nonce_len) # server_nonce
             THEN Err("BadDecodingError")
             \* &dst[4..nonce_begin]
             ELSE IF nonce_begin < 4 THEN Panic
             ELSE Ok(Some(SubSeq(dst, 4 + 1, nonce_begin)))

\* legacy_decrypt_secret: the padding is chosen from the algorithm
legacy_decrypt_secret(secret, server_nonce, server_key) ==
    IF ~secret.encryption_algorithm.some
    THEN Ok(secret.secret)
    ELSE LET a == secret.encryption_algorithm.value
         IN  IF a = "ENC_RSA_15"
             THEN legacy_secret_decrypt(secret.secret, server_nonce, server_key, "Pkcs1")
             ELSE IF a = "ENC_RSA_OAEP"
             THEN legacy_secret_decrypt(secret.secret, server_nonce, server_key, "OaepSha1")
             ELSE IF a = "ENC_RSA_OAEP_SHA256"
             THEN legacy_secret_decrypt(secret.secret, server_nonce, server_key,
                                        "OaepSha256")
             ELSE Err("BadIdentityTokenInvalid")

\* a match whose last accepting arm takes the channel's policy
EncryptionModeOf_channel_policy(channel_security_policy, channel_security_mode, token_security_policy) ==
    LET cp == channel_security_policy
        m  == channel_security_mode
        t  == token_security_policy
    IN  IF (t.some /\ t.value = "Unknown") \/ cp = "Unknown"
        THEN [kind |-> "Err", status |-> "BadSecurityPolicyRejected"]
        ELSE IF cp = "None" /\ m = "None" /\ (~t.some \/ t.value = "None")
        THEN [kind |-> "None"]
        ELSE IF cp = "None" /\ m = "None"
        THEN [kind |-> "AsymmetricFor", policy |-> t.value]
        ELSE IF m \in {"Sign", "SignAndEncrypt"} /\ ~t.some
        THEN [kind |-> "AsymmetricFor", policy |-> cp]
        ELSE IF m = "SignAndEncrypt" /\ t.value = "None"
        THEN [kind |-> "None"]
        ELSE IF m = "Sign" /\ t.value = "None"
        THEN [kind |-> "Err", status |-> "BadSecurityPolicyRejected"]
        ELSE IF m \in {"Sign", "SignAndEncrypt"}
        THEN [kind |-> "AsymmetricFor", policy |-> cp]
        ELSE [kind |-> "Err", status |-> "BadSecurityChecksFailed"]

\* a match that sends the secret in plaintext under Sign as well
EncryptionModeOf_sign_plaintext(channel_security_policy, channel_security_mode, token_security_policy) ==
    LET cp == channel_security_policy
        m  == channel_security_mode
        t  == token_security_policy
    IN  IF (t.some /\ t.value = "Unknown") \/ cp = "Unknown"
        THEN [kind |-> "Err", status |-> "BadSecurityPolicyRejected"]
        ELSE IF cp = "None" /\ m = "None" /\ (~t.some \/ t.value = "None")
        THEN [kind |-> "None"]
        ELSE IF cp = "None" /\ m = "None"
        THEN [kind |-> "AsymmetricFor", policy |-> t.value]
        ELSE IF m \in {"Sign", "SignAndEncrypt"} /\ ~t.some
        THEN [kind |-> "AsymmetricFor", policy |-> cp]
        ELSE IF m \in {"Sign", "SignAndEncrypt"} /\ t.value = "None"
        THEN [kind |-> "None"]
        ELSE IF m \in {"Sign", "SignAndEncrypt"}
        THEN [kind |-> "AsymmetricFor", policy |-> t.value]
        ELSE [kind |-> "Err", status |-> "BadSecurityChecksFailed"]

\* a match that checks the message security mode before the Unknown policies
EncryptionModeOf_mode_first(channel_security_policy, channel_security_mode, token_security_policy) ==
    LET cp == channel_security_policy
        m  == channel_security_mode
        t  == token_security_policy
    IN  IF m = "Invalid" \/ (m = "None" /\ cp # "None")
        THEN [kind |-> "Err", status |-> "BadSecurityChecksFailed"]
        ELSE IF (t.some /\ t.value = "Unknown") \/ cp = "Unknown"
        THEN [kind |-> "Err", status |-> "BadSecurityPolicyRejected"]
        ELSE IF cp = "None" /\ m = "None" /\ (~t.some \/ t.value = "None")
        THEN [kind |-> "None"]
        ELSE IF cp = "None" /\ m = "None"
        THEN [kind |-> "AsymmetricFor", policy |-> t.value]
        ELSE IF m \in {"Sign", "SignAndEncrypt"} /\ ~t.some
        THEN [kind |-> "AsymmetricFor", policy |-> cp]
        ELSE IF m = "SignAndEncrypt" /\ t.value = "None"
        THEN [kind |-> "None"]
        ELSE IF m = "Sign" /\ t.value = "None"
        THEN [kind |-> "Err", status |-> "BadSecurityPolicyRejected"]
        ELSE [kind |-> "AsymmetricFor", policy |-> t.value]

\* a match that encrypts for the token's policy under mode None on any channel
EncryptionModeOf_none_mode_any_channel(channel_security_policy, channel_security_mode, token_security_policy) ==
    LET cp == channel_security_policy
        m  == channel_security_mode
        t  == token_security_policy
    IN  IF (t.some /\ t.value = "Unknown") \/ cp = "Unknown"
        THEN [kind |-> "Err", status |-> "BadSecurityPolicyRejected"]
        ELSE IF cp = "None" /\ m = "None" /\ (~t.some \/ t.value = "None")
        THEN [kind |-> "None"]
        ELSE IF m = "None" /\ t.some /\ t.value # "None"
        THEN [kind |-> "AsymmetricFor", policy |-> t.value]
        ELSE IF m \in {"Sign", "SignAndEncrypt"} /\ ~t.some
        THEN [kind |-> "AsymmetricFor", policy |-> cp]
        ELSE IF m = "SignAndEncrypt" /\ t.value = "None"
        THEN [kind |-> "None"]
        ELSE IF m = "Sign" /\ t.value = "None"
        THEN [kind |-> "Err", status |-> "BadSecurityPolicyRejected"]
        ELSE IF m \in {"Sign", "SignAndEncrypt"}
        THEN [kind |-> "AsymmetricFor", policy |-> t.value]
        ELSE [kind |-> "Err", status |-> "BadSecurityChecksFailed"]

\* the match of legacy_encrypt_secret, arm by arm in the source's order:
\* [kind |-> "Err", status], [kind |-> "None"] or [kind |-> "AsymmetricFor", policy]
EncryptionModeOf(channel_security_policy, channel_security_mode, token_security_policy) ==
    LET cp == channel_security_policy
        m  == channel_security_mode
        t  == token_security_policy
    IN  IF (t.some /\ t.value = "Unknown") \/ cp = "Unknown"
        THEN [kind |-> "Err", status |-> "BadSecurityPolicyRejected"]
        ELSE IF cp = "None" /\ m = "None" /\ (~t.some \/ t.value = "None")
        THEN [kind |-> "None"]
        ELSE IF cp = "None" /\ m = "None"
        THEN [kind |-> "AsymmetricFor", policy |-> t.value]
        ELSE IF m \in {"Sign", "SignAndEncrypt"} /\ ~t.some
        THEN [kind |-> "AsymmetricFor", policy |-> cp]
        ELSE IF m = "SignAndEncrypt" /\ t.value = "None"
        THEN [kind |-> "None"]
        ELSE IF m = "Sign" /\ t.value = "None"
        THEN [kind |-> "Err", status |-> "BadSecurityPolicyRejected"]
        ELSE IF m \in {"Sign", "SignAndEncrypt"}
        THEN [kind |-> "AsymmetricFor", policy |-> t.value]
        ELSE [kind |-> "Err", status |-> "BadSecurityChecksFailed"]

\* legacy_encrypt_secret; cert is NoneValue or Some(key of the certificate)
legacy_encrypt_secret(channel_security_policy, channel_security_mode, user_token_policy, nonce, cert, secret_to_encrypt) ==
    LET token_security_policy ==
            IF user_token_policy.security_policy_uri = ""
            THEN NoneValue
            ELSE Some(SecurityPolicy_from_str(user_token_policy.security_policy_uri))
        encryption_mode ==
            EncryptionModeOf(channel_security_policy, channel_security_mode,
                             token_security_policy)
    IN  IF encryption_mode.kind = "Err" THEN Err(encryption_mode.status)
        ELSE IF encryption_mode.kind = "None"
        THEN Ok([secret |-> Some(secret_to_encrypt),
                 encryption_algorithm |-> NoneValue,
                 policy |-> user_token_policy.policy_id])
        ELSE \* cert.as_ref().unwrap() is evaluated before the padding
             IF ~cert.some THEN Panic
        ELSE LET security_policy == encryption_mode.policy
                 padding == asymmetric_encryption_padding(security_policy)
                 algorithm == asymmetric_encryption_algorithm(security_policy)
             IN  IF ~padding.some THEN Err("BadSecurityPolicyRejected")
                 ELSE LET password == legacy_secret_encrypt(secret_to_encrypt, nonce,
                                                            cert.value, padding.value)
                      IN  IF ~password.ok THEN password
                          ELSE IF ~algorithm.some THEN Err("BadSecurityPolicyRejected")
                          ELSE Ok([secret |-> password.value,
                                   encryption_algorithm |-> algorithm,
                                   policy |-> user_token_policy.policy_id])

\* longest secret and longest server nonce tried
MaxSecretLen == 2

MaxNonceLen == 2

ByteValues == {0, 7}

Secrets == SeqsUpTo(ByteValues, MaxSecretLen)

Nonces == SeqsUpTo(ByteValues, MaxNonceLen)

\* the server's key pair, and another one
ServerKey == "server"

Keys == {ServerKey, "other"}

UserTokenPolicies ==
    [policy_id : {"userpass_none", "userpass_rsa_oaep"}, security_policy_uri : {""} \cup SecurityPolicies]

CryptoOthersIdle ==
    /\ RestIdle
    /\ seq = SequenceNumberHandle_new(FALSE)
    /\ seqHist = [origin |-> "none"]
    /\ sub = Subscription_new
    /\ delivered = NoneValue
    /\ inbox = NoneValue
    /\ calls = <<>>
    /\ subHist = [op |-> "none"]
    /\ limits = PublishLimits_new
    /\ limHist = [op |-> "none"]

\* token: the last call, its arguments and its result
InitCrypto ==
    /\ overflow_checks \in BOOLEAN
    /\ panicked = FALSE
    /\ token = [op |-> "none"]
    /\ CryptoOthersIdle

\* the client encrypts a secret for the server
EncryptSecret ==
    /\ ~panicked
    /\ token.op = "none"
    /\ \E cp \in SecurityPolicies, m \in MessageSecurityModes,
          utp \in UserTokenPolicies, nonce \in Nonces, secret \in Secrets,
          cert \in {NoneValue, Some(ServerKey)} :
          LET r == legacy_encrypt_secret(cp, m, utp, nonce, cert, secret)
          IN  /\ token' = [op |-> "encrypt", channel_security_policy |-> cp,
                           channel_security_mode |-> m, user_token_policy |-> utp,
                           nonce |-> nonce, secret_to_encrypt |-> secret,
                           result |-> r]
              /\ panicked' = (r = Panic)
    /\ UNCHANGED <<overflow_checks, seqVars, subVars, pubVars, restVars>>

\* the server decrypts the secret it was sent, with a nonce and a private key
DecryptSecret ==
    /\ ~panicked
    /\ token.op = "encrypt"
    /\ token.result.ok
    /\ \E server_nonce \in Nonces, server_key \in Keys :
          LET r == legacy_decrypt_secret(token.result.value, server_nonce, server_key)
          IN  /\ token' = [op |-> "decrypt", encrypted |-> token,
                           server_nonce |-> server_nonce, server_key |-> server_key,
                           result |-> r]
              /\ panicked' = (r = Panic)
    /\ UNCHANGED <<overflow_checks, seqVars, subVars, pubVars, restVars>>

\* longest body (the bytes after the u32 length) of a plaintext someone
\* encrypted for the server with the server's public key
MaxBodyLen == 3

\* u32 lengths a crafted plaintext declares: the small ones, 256, 65536, u32::MAX
DeclaredHeaders ==
    {write_u32(n) : n \in 0..(MaxBodyLen + 1)}
        \cup {<<0, 1, 0, 0>>, <<0, 0, 1, 0>>, <<255, 255, 255, 255>>}

\* plaintexts of fewer than four bytes included
RawPlaintexts ==
    {h \o b : h \in DeclaredHeaders, b \in SeqsUpTo(ByteValues, MaxBodyLen)}
        \cup SeqsUpTo(ByteValues, 3)

\* a server nonce longer than the shortest plaintext with a length field
LongNonce == <<7, 7, 7, 7, 7>>

Paddings == {"Pkcs1", "OaepSha1", "OaepSha256"}

\* the server decrypts a secret that was not made by legacy_secret_encrypt:
\* a null ByteString, or any plaintext encrypted with its public key
DecryptRawSecret ==
    /\ ~panicked
    /\ token.op = "none"
    /\ \E server_nonce \in Nonces \cup {LongNonce}, padding \in Paddings,
          made \in {NoneValue} \cup {Some(d) : d \in RawPlaintexts} :
          LET secret == IF made.some
                        THEN Some(PublicKey_public_encrypt(ServerKey, made.value, padding))
                        ELSE NoneValue
              r == legacy_secret_decrypt(secret, server_nonce, ServerKey, padding)
          IN  /\ token' = [op |-> "decrypt_raw", secret |-> secret,
                           server_nonce |-> server_nonce, result |-> r]
              /\ panicked' = (r = Panic)
    /\ UNCHANGED <<overflow_checks, seqVars, subVars, pubVars, restVars>>

NextCrypto == EncryptSecret \/ DecryptSecret \/ DecryptRawSecret

SpecCrypto == InitCrypto /\ [][NextCrypto]_vars

\* The matrix of identity token encryption, read row by row from the top:
\* "Plaintext", the policy whose asymmetric encryption is used, or "error".
\* An empty URI is a token policy that names no security policy.
MatrixSelection(channel_policy, channel_mode, token_policy_uri) ==
    LET signed == channel_mode \in {"Sign", "SignAndEncrypt"}
        isPolicy(x) == x \notin {"", "None", "Unknown"}
    IN  CASE channel_policy = "None" /\ channel_mode = "None"
                /\ token_policy_uri \in {"None", ""} -> "Plaintext"
          [] channel_policy = "None" /\ channel_mode = "None"
                /\ isPolicy(token_policy_uri) -> token_policy_uri
          [] isPolicy(channel_policy) /\ signed /\ token_policy_uri = "" -> channel_policy
          [] channel_mode = "SignAndEncrypt" /\ token_policy_uri = "None" -> "Plaintext"
          [] channel_mode = "Sign" /\ token_policy_uri = "None" -> "error"
          [] signed /\ isPolicy(token_policy_uri) -> token_policy_uri
          [] OTHER -> "error"

MatrixAlgorithm(channel_policy, channel_mode, token_policy_uri) ==
    LET sel == MatrixSelection(channel_policy, channel_mode, token_policy_uri)
    IN  IF sel = "Plaintext" THEN NoneValue ELSE asymmetric_encryption_algorithm(sel)

\* C10: whenever legacy_encrypt_secret accepts its inputs, the secret it
\* produces carries the encryption algorithm of the policy the matrix selects
\* (none for plaintext), and legacy_decrypt_secret with the same nonce and the
\* server's private key returns exactly the original secret bytes.
C10_EncryptDecryptRoundTrip ==
    /\ (token.op = "encrypt" /\ token.result.ok) =>
          /\ MatrixSelection(token.channel_security_policy, token.channel_security_mode,
                             token.user_token_policy.security_policy_uri) # "error"
          /\ token.result.value.encryption_algorithm =
                MatrixAlgorithm(token.channel_security_policy,
                                token.channel_security_mode,
                                token.user_token_policy.security_policy_uri)
    /\ (/\ token.op = "decrypt"
        /\ token.server_nonce = token.encrypted.nonce
        /\ token.server_key = ServerKey) =>
          /\ token.result.ok
          /\ token.result.value = Some(token.encrypted.secret_to_encrypt)

\* an RSA-OAEP secret, made from a secret and a nonce that differ, has been
\* decrypted to the original secret with the same nonce and the server's key
C10_Witness ==
    /\ token.op = "decrypt"
    /\ token.server_nonce = token.encrypted.nonce
    /\ token.server_key = ServerKey
    /\ token.encrypted.result.value.encryption_algorithm = Some("ENC_RSA_OAEP")
    /\ token.encrypted.channel_security_mode = "SignAndEncrypt"
    /\ Len(token.encrypted.secret_to_encrypt) > 0
    /\ Len(token.encrypted.nonce) > 0
    /\ token.encrypted.secret_to_encrypt # token.encrypted.nonce
    /\ token.result = Ok(Some(token.encrypted.secret_to_encrypt))

\* the arguments of the last legacy_encrypt_secret call
EncChannelPolicy == token.channel_security_policy

EncChannelMode == token.channel_security_mode

EncTokenUri == token.user_token_policy.security_policy_uri

\* the last call was legacy_encrypt_secret and it returned an encrypted secret
EncryptedAsymmetrically ==
    /\ token.op = "encrypt"
    /\ token.result.ok
    /\ token.result.value.encryption_algorithm.some

\* C11: when legacy_encrypt_secret encrypts asymmetrically, the padding and the
\* encryption_algorithm are those of the token policy's security policy if one
\* is given (not empty, not None), and those of the channel's policy only when
\* the token policy URI is empty and the mode is Sign or SignAndEncrypt; channel
\* Basic128Rsa15 with SignAndEncrypt and token policy Basic256Sha256 gives
\* rsa-oaep.
C11_TokenPolicySelectsAlgorithm ==
    /\ EncryptedAsymmetrically =>
          LET given == EncTokenUri \notin {"", "None"}
              selected == IF given THEN EncTokenUri ELSE EncChannelPolicy
          IN  /\ ~given => /\ EncTokenUri = ""
                           /\ EncChannelMode \in {"Sign", "SignAndEncrypt"}
              /\ token.result.value.encryption_algorithm =
                    asymmetric_encryption_algorithm(selected)
              /\ Some(token.result.value.secret.value.padding) =
                    asymmetric_encryption_padding(selected)
    /\ (/\ token.op = "encrypt"
        /\ EncChannelPolicy = "Basic128Rsa15"
        /\ EncChannelMode = "SignAndEncrypt"
        /\ EncTokenUri = "Basic256Sha256"
        /\ token.result # Panic) =>
          /\ token.result.ok
          /\ token.result.value.encryption_algorithm = Some("ENC_RSA_OAEP")

\* channel Basic128Rsa15, SignAndEncrypt, token policy Basic256Sha256 has been
\* encrypted with OAEP
C11_Witness ==
    /\ EncryptedAsymmetrically
    /\ EncChannelPolicy = "Basic128Rsa15"
    /\ EncChannelMode = "SignAndEncrypt"
    /\ EncTokenUri = "Basic256Sha256"
    /\ token.result.value.secret.value.padding = "OaepSha1"
    /\ Len(token.secret_to_encrypt) > 0

\* the combinations the matrix sends in plaintext
PlaintextCombination ==
    \/ /\ EncChannelPolicy = "None"
       /\ EncChannelMode = "None"
       /\ EncTokenUri \in {"None", ""}
    \/ /\ EncChannelPolicy # "Unknown"
       /\ EncChannelMode = "SignAndEncrypt"
       /\ EncTokenUri = "None"

\* C12: legacy_encrypt_secret returns the secret in plaintext (the input bytes,
\* a null encryption_algorithm, the token policy's policy_id) exactly for
\* (None, None, None or empty) and (any known policy, SignAndEncrypt, None);
\* every other accepted combination returns an encrypted secret with a
\* non-empty encryption_algorithm.
C12_PlaintextExactlyForTwoRows ==
    token.op = "encrypt" =>
       /\ PlaintextCombination =>
             /\ token.result.ok
             /\ token.result.value.secret = Some(token.secret_to_encrypt)
             /\ token.result.value.encryption_algorithm = NoneValue
             /\ token.result.value.policy = token.user_token_policy.policy_id
       /\ (token.result.ok /\ ~PlaintextCombination) =>
             /\ token.result.value.encryption_algorithm.some
             /\ token.result.value.encryption_algorithm.value # ""
             /\ token.result.value.secret.some
             /\ token.result.value.secret.value.data # token.secret_to_encrypt

\* a secret has been returned in plaintext over a Basic256Sha256 channel with
\* SignAndEncrypt and a token policy of None
C12_Witness ==
    /\ token.op = "encrypt"
    /\ EncChannelPolicy = "Basic256Sha256"
    /\ EncChannelMode = "SignAndEncrypt"
    /\ EncTokenUri = "None"
    /\ Len(token.secret_to_encrypt) > 0
    /\ token.result.ok
    /\ token.result.value.secret = Some(token.secret_to_encrypt)
    /\ token.result.value.policy = "userpass_none"

\* C13: legacy_encrypt_secret fails with BadSecurityPolicyRejected and returns
\* no secret whenever the channel's security policy or the token's security
\* policy is Unknown, whatever the channel security mode (for None and Invalid
\* too, where this error comes before BadSecurityChecksFailed).
C13_UnknownPolicyRejected ==
    (/\ token.op = "encrypt"
     /\ (EncChannelPolicy = "Unknown" \/ EncTokenUri = "Unknown")) =>
       token.result = Err("BadSecurityPolicyRejected")

\* an Unknown token policy has been rejected on a channel whose mode is Invalid
C13_Witness ==
    /\ token.op = "encrypt"
    /\ EncChannelPolicy = "Basic256Sha256"
    /\ EncTokenUri = "Unknown"
    /\ EncChannelMode = "Invalid"
    /\ token.result = Err("BadSecurityPolicyRejected")

\* neither the channel's policy nor the token's policy is Unknown
PoliciesKnown == EncChannelPolicy # "Unknown" /\ EncTokenUri # "Unknown"

\* C14: with known policies, legacy_encrypt_secret fails with
\* BadSecurityPolicyRejected when the mode is Sign and the token's security
\* policy is None, and with BadSecurityChecksFailed when the mode is Invalid,
\* or is None on a channel whose policy is not None; no secret is returned.
C14_SignNoneAndBadModesRejected ==
    (token.op = "encrypt" /\ PoliciesKnown) =>
       /\ (EncChannelMode = "Sign" /\ EncTokenUri = "None") =>
             token.result = Err("BadSecurityPolicyRejected")
       /\ EncChannelMode = "Invalid" =>
             token.result = Err("BadSecurityChecksFailed")
       /\ (EncChannelMode = "None" /\ EncChannelPolicy # "None") =>
             token.result = Err("BadSecurityChecksFailed")

\* mode None on a Basic256Sha256 channel has been rejected for a token policy
\* that names an encrypting policy
C14_Witness ==
    /\ token.op = "encrypt"
    /\ EncChannelPolicy = "Basic256Sha256"
    /\ EncChannelMode = "None"
    /\ EncTokenUri = "Aes256Sha256RsaPss"
    /\ token.result = Err("BadSecurityChecksFailed")

\* What a decrypted plaintext says, read independently of the decryption code.
\* the first four bytes, zero where the plaintext is shorter
HeaderOf(data) == [i \in 1..4 |-> IF i <= Len(data) THEN data[i] ELSE 0]

\* the declared length is below 2^16 (no buffer of the model is that large)
DeclaredSmall(data) == HeaderOf(data)[3] = 0 /\ HeaderOf(data)[4] = 0

DeclaredLength(data) == HeaderOf(data)[1] + ByteBase * HeaderOf(data)[2]

\* the declared length fits the decrypted size
DeclaredMatches(data) ==
    DeclaredSmall(data) /\ DeclaredLength(data) + 4 <= Len(data)

\* every byte after the declared length is zero
PaddingIsZero(data) ==
    \A i \in 1..Len(data) : i > DeclaredLength(data) + 4 => data[i] = 0

\* the declared bytes end with the nonce
TrailingNonceMatches(data, nonce) ==
    /\ Len(nonce) <= DeclaredLength(data)
    /\ SubSeq(data, 4 + DeclaredLength(data) - Len(nonce) + 1, 4 + DeclaredLength(data))
          = nonce

SecretIn(data, nonce) == SubSeq(data, 5, 4 + DeclaredLength(data) - Len(nonce))

\* C15: legacy_secret_decrypt fails with BadDecodingError whenever the bytes
\* trailing the secret differ from the server nonce, whenever a byte after the
\* declared length is non-zero, and whenever the declared length does not
\* match the decrypted size; it returns the secret only when all checks pass.
C15_DecryptChecksOrBadDecodingError ==
    (token.op = "decrypt_raw" /\ token.secret.some) =>
       LET data == token.secret.value.data
           nonce == token.server_nonce
       IN  IF /\ DeclaredMatches(data)
              /\ PaddingIsZero(data)
              /\ TrailingNonceMatches(data, nonce)
           THEN token.result = Ok(Some(SecretIn(data, nonce)))
           ELSE token.result = Err("BadDecodingError")

(***************************************************************************)
(* Debug rendering of the client's identity token (identity_token.rs).     *)
(* A String is a sequence of characters; a rendering is the sequence of    *)
(* pieces written to the formatter, in order.                              *)
(***************************************************************************)
\* char::escape_debug, for the characters of the model
escape_debug(c) ==
    IF c = "\"" THEN "\\\"" ELSE IF c = "\\" THEN "\\\\" ELSE c

\* <str as Debug>::fmt: the string in quotes, its characters escaped
str_Debug(str) ==
    <<"\"">> \o [i \in 1..Len(str) |-> escape_debug(str[i])] \o <<"\"">>

\* PadAdapter: four spaces in front of every line
RECURSIVE Indent(_, _)
Indent(pieces, at_line_start) ==
    IF pieces = <<>> THEN <<>>
    ELSE (IF at_line_start THEN <<"    ">> ELSE <<>>)
            \o <<Head(pieces)>> \o Indent(Tail(pieces), Head(pieces) = "\n")

RECURSIVE DebugTupleFields(_, _, _)
DebugTupleFields(fields, n, alternate) ==
    IF n > Len(fields) THEN <<>>
    ELSE (IF alternate
          THEN Indent(fields[n] \o <<",", "\n">>, TRUE)
          ELSE (IF n > 1 THEN <<", ">> ELSE <<>>) \o fields[n])
            \o DebugTupleFields(fields, n + 1, alternate)

\* Formatter::debug_tuple(name).field(..)...finish(); alternate is {:#?}
DebugTuple(name, fields, alternate) ==
    IF fields = <<>> THEN <<name>>
    ELSE <<name, "(">> \o (IF alternate THEN <<"\n">> ELSE <<>>)
            \o DebugTupleFields(fields, 1, alternate) \o <<")">>

\* what #[derive(Debug)] on Password would write
Password_fmt_derived(password, alternate) ==
    DebugTuple("Password", <<str_Debug(password)>>, alternate)

\* impl Debug for Password
Password_fmt(password, alternate) ==
    DebugTuple("Password", <<str_Debug(<<"*", "*", "*", "*", "*">>)>>, alternate)

\* impl Debug for IssuedTokenWrapper
IssuedTokenWrapper_fmt(alternate) == DebugTuple("IssuedTokenSource", <<>>, alternate)

\* #[derive(Debug)] on IdentityToken; a token is [kind, user_name, password].
\* (X509 tokens, whose Debug is that of the certificate types, are left out.)
IdentityToken_fmt(t, alternate) ==
    IF t.kind = "Anonymous" THEN <<"Anonymous">>
    ELSE IF t.kind = "UserName"
    THEN DebugTuple("UserName",
                    <<str_Debug(t.user_name), Password_fmt(t.password, alternate)>>,
                    alternate)
    ELSE DebugTuple("IssuedToken", <<IssuedTokenWrapper_fmt(alternate)>>, alternate)

\* longest user name and password
MaxStrLen == 2

Chars == {"a", "\""}

Strings == SeqsUpTo(Chars, MaxStrLen)

new_user_name(user_name, password) ==
    [kind |-> "UserName", user_name |-> user_name, password |-> password]

DebugOthersIdle ==
    /\ CryptoOthersIdle
    /\ token = [op |-> "none"]

InitDebug ==
    /\ overflow_checks \in BOOLEAN
    /\ panicked = FALSE
    /\ DebugOthersIdle

\* two passwords are rendered with {:?} or {:#?}
FormatPasswords ==
    /\ rendering.op = "none"
    /\ \E p1 \in Strings, p2 \in Strings, alternate \in BOOLEAN :
          rendering' = [op |-> "Password", passwords |-> <<p1, p2>>,
                        alternate |-> alternate,
                        out |-> <<Password_fmt(p1, alternate),
                                  Password_fmt(p2, alternate)>>]
    /\ UNCHANGED <<overflow_checks, panicked, seqVars, subVars, pubVars, cryptoVars,
                   server, conn>>

\* two user name tokens of one user, or a token of another kind, are rendered
FormatIdentityTokens ==
    /\ rendering.op = "none"
    /\ \/ \E u \in Strings, p1 \in Strings, p2 \in Strings, alternate \in BOOLEAN :
             rendering' = [op |-> "UserName", user_name |-> u,
                           passwords |-> <<p1, p2>>, alternate |-> alternate,
                           out |-> <<IdentityToken_fmt(new_user_name(u, p1), alternate),
                                     IdentityToken_fmt(new_user_name(u, p2), alternate)>>]
       \/ \E k \in {"Anonymous", "IssuedToken"}, alternate \in BOOLEAN :
             rendering' = [op |-> k, alternate |-> alternate,
                           out |-> <<IdentityToken_fmt([kind |-> k], alternate)>>]
    /\ UNCHANGED <<overflow_checks, panicked, seqVars, subVars, pubVars, cryptoVars,
                   server, conn>>

NextDebug == FormatPasswords \/ FormatIdentityTokens

SpecDebug == InitDebug /\ [][NextDebug]_vars

\* piece occurs in a rendering
RECURSIVE Contains(_, _)
Contains(pieces, piece) ==
    pieces # <<>> /\ (Head(pieces) = piece \/ Contains(Tail(pieces), piece))

\* C16: the Debug rendering of a Password, and of an IdentityToken::UserName
\* holding it, is the same for any two passwords (and any user name): the
\* password is replaced by the fixed token "*****".
C16_DebugHidesPassword ==
    rendering.op \in {"Password", "UserName"} =>
       /\ rendering.out[1] = rendering.out[2]
       /\ rendering.op = "Password" =>
             rendering.out[1] =
                IF rendering.alternate
                THEN <<"Password", "(", "\n", "    ", "\"", "*", "*", "*", "*", "*",
                       "\"", ",", "\n", ")">>
                ELSE <<"Password", "(", "\"", "*", "*", "*", "*", "*", "\"", ")">>
       /\ (rendering.op = "UserName" /\ ~rendering.alternate) =>
             rendering.out[1] =
                <<"UserName", "(">> \o str_Debug(rendering.user_name)
                   \o <<", ", "Password", "(", "\"", "*", "*", "*", "*", "*", "\"",
                        ")", ")">>

\* a user name token has been rendered with two different non-empty passwords
C16_Witness ==
    /\ rendering.op = "UserName"
    /\ rendering.passwords[1] # rendering.passwords[2]
    /\ Len(rendering.passwords[1]) > 0
    /\ Len(rendering.passwords[2]) > 0
    /\ Len(rendering.user_name) > 0
    /\ rendering.out[1] = rendering.out[2]
    /\ Contains(rendering.out[1], "Password")

\* C17: set_is_legacy(b) sets the mode to b; a current value above the new
\* mode's max_value becomes min_value + (current - max_value - 1) in the new
\* mode's bounds (u32::MAX - 1023 becomes 1 on switching to legacy), and a
\* current value that is not above it is left unchanged.
C17_SetIsLegacyWraps ==
    seqHist.last.op = "set_is_legacy" =>
       LET b   == seqHist.last.flag
           old == seqHist.pre.current_value
           now == seq.current_value
       IN  /\ seq.is_legacy = b
           /\ IF b /\ U32Lt(U32MaxMinus(LegacyGap), old)
              \* old = u32::MAX - k with k < 1024: 1 + (old - max - 1) = 1024 - k
              THEN /\ now[1] = 0
                   /\ now[2] \in 1..LegacyGap
                   /\ old = U32MaxMinus(LegacyGap - now[2])
              ELSE now = old
           /\ (b /\ old = U32MaxMinus(LegacyGap - 1)) => now = U32Of(1)

\* a non-legacy handle at u32::MAX - 1023 has been switched to legacy
C17_Witness ==
    /\ seqHist.last.op = "set_is_legacy"
    /\ seqHist.last.flag
    /\ ~seqHist.pre.is_legacy
    /\ seqHist.pre.current_value = U32MaxMinus(LegacyGap - 1)
    /\ seq = [is_legacy |-> TRUE, current_value |-> U32Of(1)]

(***************************************************************************)
(* A server session and its subscriptions.  A subscription is              *)
(* [monitored_items, pending, next_sequence_number, retransmission]:       *)
(* the number of monitored items, the notifications waiting for a Publish  *)
(* request, the sequence number of the next notification message and the   *)
(* messages sent and kept for Republish, oldest first.  A notification is  *)
(* <<subscription id, number of the data change that caused it>> (produced *)
(* counts the data changes), a message is [sequence_number, payload].      *)
(***************************************************************************)
\* limits of the server's configuration
max_subscriptions_per_session == 2

max_monitored_items_per_call == 2

max_notifications_per_publish == 2

retransmit_queue_size == 1

ServerSubscription_new ==
    [monitored_items |-> 0, produced |-> 0, pending |-> <<>>,
     next_sequence_number |-> 1, retransmission |-> <<>>]

\* subscriptions by id, the id of the next subscription, and unacked: the
\* payload of every message a Publish response delivered and no later request
\* acknowledged, by <<subscription id, sequence number>>
ServerSession_new ==
    [subscriptions |-> <<>>, next_subscription_id |-> 1, unacked |-> <<>>]

\* CreateSubscription without the check against the limit
ServerCreateSubscription_unlimited(ss) ==
    [session |-> [ss EXCEPT
                     !.subscriptions =
                         MapInsert(@, ss.next_subscription_id, ServerSubscription_new),
                     !.next_subscription_id = @ + 1],
     status |-> "Good"]

\* the CreateSubscription service
ServerCreateSubscription(ss) ==
    IF Cardinality(DOMAIN ss.subscriptions) >= max_subscriptions_per_session
    THEN [session |-> ss, status |-> "BadTooManySubscriptions"]
    ELSE [session |-> [ss EXCEPT
                          !.subscriptions =
                              MapInsert(@, ss.next_subscription_id,
                                        ServerSubscription_new),
                          !.next_subscription_id = @ + 1],
          status |-> "Good"]

\* the DeleteSubscriptions service, for one subscription
ServerDeleteSubscription(ss, subscription_id) ==
    IF subscription_id \notin DOMAIN ss.subscriptions
    THEN [session |-> ss, status |-> "BadSubscriptionIdInvalid"]
    ELSE [session |-> [ss EXCEPT
                          !.subscriptions = MapRemove(@, subscription_id),
                          !.unacked = [k \in {x \in DOMAIN @ : x[1] # subscription_id}
                                          |-> @[k]]],
          status |-> "Good"]

\* the CreateMonitoredItems service with n items to create
ServerCreateMonitoredItems(ss, subscription_id, n) ==
    IF n = 0 THEN [session |-> ss, status |-> "BadNothingToDo"]
    ELSE IF n > max_monitored_items_per_call
    THEN [session |-> ss, status |-> "BadTooManyOperations"]
    ELSE IF subscription_id \notin DOMAIN ss.subscriptions
    THEN [session |-> ss, status |-> "BadSubscriptionIdInvalid"]
    ELSE [session |-> [ss EXCEPT
                          !.subscriptions[subscription_id].monitored_items = @ + n],
          status |-> "Good"]

\* a monitored item of the subscription reports a data change
ServerDataChange(ss, subscription_id) ==
    [ss EXCEPT !.subscriptions[subscription_id] =
        [@ EXCEPT !.produced = @ + 1,
                  !.pending = Append(@, <<subscription_id,
                                          ss.subscriptions[subscription_id].produced + 1>>)]]

RECURSIVE NotificationsIn(_)
NotificationsIn(messages) ==
    IF messages = <<>> THEN 0
    ELSE Len(Head(messages).payload) + NotificationsIn(Tail(messages))

\* the cache keeps the last max_notifications_per_publish * retransmit_queue_size
\* notifications of a subscription
RECURSIVE EvictOldest(_)
EvictOldest(messages) ==
    IF NotificationsIn(messages) > max_notifications_per_publish * retransmit_queue_size
    THEN EvictOldest(Tail(messages))
    ELSE messages

\* the acknowledged messages leave the cache
Acknowledge(ss, acks) ==
    [ss EXCEPT
        !.subscriptions =
            [id \in DOMAIN @ |->
                [@[id] EXCEPT !.retransmission =
                    SelectSeq(@, LAMBDA m : <<id, m.sequence_number>> \notin acks)]],
        !.unacked = [k \in DOMAIN @ \ acks |-> @[k]]]

\* the Publish service: the acknowledgements are applied, and the subscription
\* chosen to report (one with pending notifications) sends its next message
ServerPublish(ss, acks, subscription_id) ==
    LET s1 == Acknowledge(ss, acks)
        sb == s1.subscriptions[subscription_id]
        k  == IF Len(sb.pending) < max_notifications_per_publish
              THEN Len(sb.pending) ELSE max_notifications_per_publish
        message == [sequence_number |-> sb.next_sequence_number,
                    payload |-> SubSeq(sb.pending, 1, k)]
    IN  [session |->
            [s1 EXCEPT
                !.subscriptions[subscription_id] =
                    [@ EXCEPT !.pending = SubSeq(@, k + 1, Len(@)),
                              !.next_sequence_number = @ + 1,
                              !.retransmission = EvictOldest(Append(@, message))],
                !.unacked = MapInsert(@, <<subscription_id, message.sequence_number>>,
                                      message.payload)],
         status |-> "Good", subscription_id |-> subscription_id, message |-> message]

MessagesWith(messages, sequence_number) ==
    SelectSeq(messages, LAMBDA m : m.sequence_number = sequence_number)

\* a Republish that answers with the newest message it keeps
ServerRepublish_newest(ss, subscription_id, sequence_number) ==
    IF subscription_id \notin DOMAIN ss.subscriptions
    THEN [status |-> "BadSubscriptionIdInvalid"]
    ELSE LET kept == ss.subscriptions[subscription_id].retransmission
         IN  IF MessagesWith(kept, sequence_number) = <<>>
             THEN [status |-> "BadMessageNotAvailable"]
             ELSE [status |-> "Good", message |-> kept[Len(kept)]]

\* the Republish service
ServerRepublish(ss, subscription_id, sequence_number) ==
    IF subscription_id \notin DOMAIN ss.subscriptions
    THEN [status |-> "BadSubscriptionIdInvalid"]
    ELSE LET found == MessagesWith(ss.subscriptions[subscription_id].retransmission,
                                   sequence_number)
         IN  IF found = <<>>
             THEN [status |-> "BadMessageNotAvailable"]
             ELSE [status |-> "Good", message |-> found[1]]

\* subscriptions ever created, and monitored items per subscription
MaxSubscriptionIds == 2

MaxServerItems == 2

\* data changes per subscription
MaxProduced == 3

ServerOthersIdle ==
    /\ seq = SequenceNumberHandle_new(FALSE)
    /\ seqHist = [origin |-> "none"]
    /\ sub = Subscription_new
    /\ delivered = NoneValue
    /\ inbox = NoneValue
    /\ calls = <<>>
    /\ subHist = [op |-> "none"]
    /\ limits = PublishLimits_new
    /\ limHist = [op |-> "none"]
    /\ token = [op |-> "none"]
    /\ rendering = [op |-> "none"]
    /\ conn = [op |-> "none"]

\* server: the session and the last service call
InitServer ==
    /\ overflow_checks \in BOOLEAN
    /\ panicked = FALSE
    /\ server = [session |-> ServerSession_new, last |-> [op |-> "none"]]
    /\ ServerOthersIdle

ServerUnchanged ==
    UNCHANGED <<overflow_checks, panicked, seqVars, subVars, pubVars, cryptoVars,
                rendering, conn>>

CreateSubscription ==
    /\ \/ server.session.next_subscription_id <= MaxSubscriptionIds
       \/ Cardinality(DOMAIN server.session.subscriptions) >= max_subscriptions_per_session
    /\ LET r == ServerCreateSubscription(server.session)
       IN  server' = [session |-> r.session,
                      last |-> [op |-> "CreateSubscription", status |-> r.status]]
    /\ ServerUnchanged

DeleteSubscription ==
    /\ \E id \in 1..MaxSubscriptionIds :
          LET r == ServerDeleteSubscription(server.session, id)
          IN  server' = [session |-> r.session,
                         last |-> [op |-> "DeleteSubscription",
                                   subscription_id |-> id, status |-> r.status]]
    /\ ServerUnchanged

CreateMonitoredItemsCall ==
    /\ \E id \in 1..MaxSubscriptionIds, n \in 0..(max_monitored_items_per_call + 1) :
          /\ id \in DOMAIN server.session.subscriptions =>
                server.session.subscriptions[id].monitored_items + n <= MaxServerItems
                  \/ n > max_monitored_items_per_call
          /\ LET r == ServerCreateMonitoredItems(server.session, id, n)
             IN  server' = [session |-> r.session,
                            last |-> [op |-> "CreateMonitoredItems",
                                      subscription_id |-> id, items |-> n,
                                      status |-> r.status]]
    /\ ServerUnchanged

DataChange ==
    /\ \E id \in DOMAIN server.session.subscriptions :
          /\ server.session.subscriptions[id].monitored_items > 0
          /\ server.session.subscriptions[id].produced < MaxProduced
          /\ server' = [session |-> ServerDataChange(server.session, id),
                        last |-> [op |-> "DataChange", subscription_id |-> id]]
    /\ ServerUnchanged

\* the client acknowledges nothing, one message or every message it received
AckChoices ==
    {{}, DOMAIN server.session.unacked} \cup {{k} : k \in DOMAIN server.session.unacked}

Publish ==
    /\ \E acks \in AckChoices, id \in DOMAIN server.session.subscriptions :
          /\ server.session.subscriptions[id].pending # <<>>
          /\ LET r == ServerPublish(server.session, acks, id)
             IN  server' = [session |-> r.session,
                            last |-> [op |-> "Publish", acks |-> acks,
                                      subscription_id |-> id, status |-> r.status,
                                      message |-> r.message]]
    /\ ServerUnchanged

Republish ==
    /\ \E id \in 1..MaxSubscriptionIds, sequence_number \in 1..MaxProduced :
          LET r == ServerRepublish(server.session, id, sequence_number)
          IN  server' = [session |-> server.session,
                         last |-> [op |-> "Republish", subscription_id |-> id,
                                   sequence_number |-> sequence_number,
                                   result |-> r]]
    /\ ServerUnchanged

NextServer ==
    \/ CreateSubscription
    \/ DeleteSubscription
    \/ CreateMonitoredItemsCall
    \/ DataChange
    \/ Publish
    \/ Republish

SpecServer == InitServer /\ [][NextServer]_vars

\* C18: a session never holds more than max_subscriptions_per_session
\* subscriptions: CreateSubscription on a session that holds that many fails
\* with BadTooManySubscriptions and creates nothing; CreateMonitoredItems fails
\* with BadNothingToDo for an empty list and with BadTooManyOperations for more
\* than max_monitored_items_per_call items, creating no monitored item.
C18_SubscriptionLimits ==
    /\ [](Cardinality(DOMAIN server.session.subscriptions)
             <= max_subscriptions_per_session)
    /\ [][/\ (/\ server'.last.op = "CreateSubscription"
              /\ Cardinality(DOMAIN server.session.subscriptions)
                    = max_subscriptions_per_session) =>
                /\ server'.last.status = "BadTooManySubscriptions"
                /\ server'.session = server.session
          /\ (server'.last.op = "CreateMonitoredItems" /\ server'.last.items = 0) =>
                /\ server'.last.status = "BadNothingToDo"
                /\ server'.session = server.session
          /\ (/\ server'.last.op = "CreateMonitoredItems"
              /\ server'.last.items > max_monitored_items_per_call) =>
                /\ server'.last.status = "BadTooManyOperations"
                /\ server'.session = server.session]_vars

\* a CreateSubscription on a full session has been refused
C18_Witness ==
    /\ server.last.op = "CreateSubscription"
    /\ Cardinality(DOMAIN server.session.subscriptions) = max_subscriptions_per_session
    /\ server.last.status = "BadTooManySubscriptions"

\* the last call was Republish for a message that a Publish response delivered
\* and that has not been acknowledged
RepublishOfUnacked ==
    /\ server.last.op = "Republish"
    /\ <<server.last.subscription_id, server.last.sequence_number>>
          \in DOMAIN server.session.unacked

DeliveredPayload ==
    server.session.unacked[<<server.last.subscription_id, server.last.sequence_number>>]

\* notifications the subscription has sent in the message asked for and in
\* all messages after it
DeliveredSince ==
    LET sb == server.session.subscriptions[server.last.subscription_id]
    IN  sb.produced - Len(sb.pending) - DeliveredPayload[1][2] + 1

RepublishReturnsDelivered ==
    /\ server.last.result.status = "Good"
    /\ server.last.result.message.sequence_number = server.last.sequence_number
    /\ server.last.result.message.payload = DeliveredPayload

\* C19 as claimed: after a Publish response delivered the message with
\* sequence number s of a subscription and before s is acknowledged,
\* Republish(subscription_id, s) succeeds with the payload of that response.
C19_RepublishSamePayload == RepublishOfUnacked => RepublishReturnsDelivered

\* C19 as amended: the same, as long as the subscription has sent no more than
\* max_notifications_per_publish * retransmit_queue_size notifications in the
\* message s and the messages after it.
C19_RepublishSamePayloadWhileRetained ==
    (/\ RepublishOfUnacked
     /\ DeliveredSince <= max_notifications_per_publish * retransmit_queue_size) =>
       RepublishReturnsDelivered

\* the first of two unacknowledged messages of a subscription has been
\* republished while the session's other subscription has sent a message too
C19_Witness ==
    /\ RepublishOfUnacked
    /\ DeliveredSince = max_notifications_per_publish * retransmit_queue_size
    /\ Len(server.session.subscriptions[server.last.subscription_id].retransmission) > 1
    /\ \E k \in DOMAIN server.session.unacked : k[1] # server.last.subscription_id
    /\ RepublishReturnsDelivered

(***************************************************************************)
(* Endpoint selection of the SessionBuilder (connection.rs).  An endpoint  *)
(* is [security_level, security_mode, user_identity_tokens], the last one  *)
(* NoneValue or Some(sequence of the token types of its policies).         *)
(***************************************************************************)
\* the UserTokenType an identity token needs
TokenTypeOf(user_identity_token) ==
    IF user_identity_token = "Anonymous" THEN "Anonymous"
    ELSE IF user_identity_token = "UserName" THEN "UserName"
    ELSE IF user_identity_token = "X509" THEN "Certificate"
    ELSE "IssuedToken"

endpoint_supports_token(user_identity_token, endpoint) ==
    LET listed == /\ endpoint.user_identity_tokens.some
                  /\ \E i \in 1..Len(endpoint.user_identity_tokens.value) :
                        endpoint.user_identity_tokens.value[i]
                           = TokenTypeOf(user_identity_token)
    IN  IF user_identity_token = "Anonymous"
        THEN ~endpoint.user_identity_tokens.some \/ listed
        ELSE listed

\* Iterator::filter over the indices of the endpoints
RECURSIVE FilterSupporting(_, _, _)
FilterSupporting(user_identity_token, endpoints, i) ==
    IF i > Len(endpoints) THEN <<>>
    ELSE (IF endpoint_supports_token(user_identity_token, endpoints[i])
          THEN <<i>> ELSE <<>>)
            \o FilterSupporting(user_identity_token, endpoints, i + 1)

\* Iterator::max_by with a.security_level.cmp(&b.security_level): a fold that
\* keeps the element held only when it compares Greater than the next one
RECURSIVE MaxBySecurityLevel(_, _, _)
MaxBySecurityLevel(endpoints, candidates, best) ==
    IF candidates = <<>> THEN best
    ELSE MaxBySecurityLevel(
            endpoints, Tail(candidates),
            IF endpoints[best].security_level > endpoints[Head(candidates)].security_level
            THEN best ELSE Head(candidates))

\* Iterator::find: the first index that satisfies the test, or 0
RECURSIVE FindUnencrypted(_, _, _)
FindUnencrypted(user_identity_token, endpoints, i) ==
    IF i > Len(endpoints) THEN 0
    ELSE IF /\ endpoints[i].security_mode = "None"
            /\ endpoint_supports_token(user_identity_token, endpoints[i])
    THEN i
    ELSE FindUnencrypted(user_identity_token, endpoints, i + 1)

\* a selection that takes the first supporting endpoint, whatever its level
connect_to_best_endpoint_first(user_identity_token, endpoints, secure) ==
    LET supporting == FilterSupporting(user_identity_token, endpoints, 1)
        chosen == IF secure
                  THEN (IF supporting = <<>> THEN 0 ELSE Head(supporting))
                  ELSE FindUnencrypted(user_identity_token, endpoints, 1)
    IN  IF chosen = 0 THEN Err("No suitable endpoint found")
        ELSE Ok([index |-> chosen, endpoint |-> endpoints[chosen]])

\* connect_to_best_endpoint: the endpoint of the builder it returns (and its
\* place in the list), or the error
connect_to_best_endpoint(user_identity_token, endpoints, secure) ==
    LET supporting == FilterSupporting(user_identity_token, endpoints, 1)
        chosen == IF secure
                  THEN (IF supporting = <<>> THEN 0
                        ELSE MaxBySecurityLevel(endpoints, Tail(supporting),
                                                Head(supporting)))
                  ELSE FindUnencrypted(user_identity_token, endpoints, 1)
    IN  IF chosen = 0 THEN Err("No suitable endpoint found")
        ELSE Ok([index |-> chosen, endpoint |-> endpoints[chosen]])

\* longest list of endpoints
MaxEndpoints == 2

SecurityLevels == {0, 1, 3}

UserIdentityTokenLists ==
    {NoneValue, Some(<<>>), Some(<<"Anonymous">>), Some(<<"UserName">>),
     Some(<<"Certificate">>), Some(<<"Anonymous", "UserName">>)}

EndpointDescriptions ==
    [security_level : SecurityLevels, security_mode : {"None", "SignAndEncrypt"},
     user_identity_tokens : UserIdentityTokenLists]

IdentityTokenKinds == {"Anonymous", "UserName", "X509", "IssuedToken"}

ConnectOthersIdle ==
    /\ seq = SequenceNumberHandle_new(FALSE)
    /\ seqHist = [origin |-> "none"]
    /\ sub = Subscription_new
    /\ delivered = NoneValue
    /\ inbox = NoneValue
    /\ calls = <<>>
    /\ subHist = [op |-> "none"]
    /\ limits = PublishLimits_new
    /\ limHist = [op |-> "none"]
    /\ token = [op |-> "none"]
    /\ rendering = [op |-> "none"]
    /\ server = [op |-> "none"]

\* conn: the builder's identity token and endpoints, and the last selection
InitConnect ==
    /\ overflow_checks \in BOOLEAN
    /\ panicked = FALSE
    /\ conn = [op |-> "none"]
    /\ ConnectOthersIdle

ConnectToBestEndpoint ==
    /\ conn.op = "none"
    /\ \E user_identity_token \in IdentityTokenKinds,
          endpoints \in SeqsUpTo(EndpointDescriptions, MaxEndpoints),
          secure \in BOOLEAN :
          conn' = [op |-> "connect_to_best_endpoint",
                   user_identity_token |-> user_identity_token,
                   endpoints |-> endpoints, secure |-> secure,
                   result |-> connect_to_best_endpoint(user_identity_token, endpoints,
                                                       secure)]
    /\ UNCHANGED <<overflow_checks, panicked, seqVars, subVars, pubVars, cryptoVars,
                   rendering, server>>

NextConnect == ConnectToBestEndpoint

SpecConnect == InitConnect /\ [][NextConnect]_vars

\* the places of the listed endpoints that support the builder's token
SupportingEndpoints ==
    {i \in 1..Len(conn.endpoints) :
        endpoint_supports_token(conn.user_identity_token, conn.endpoints[i])}

\* C20: connect_to_best_endpoint(true) selects, among the listed endpoints
\* that support the configured identity token, one whose security_level is
\* maximal, and returns "No suitable endpoint found" exactly when no listed
\* endpoint supports the token.
C20_BestEndpointHasMaxSecurityLevel ==
    (conn.op = "connect_to_best_endpoint" /\ conn.secure) =>
       IF SupportingEndpoints = {}
       THEN conn.result = Err("No suitable endpoint found")
       ELSE /\ conn.result.ok
            /\ conn.result.value.index \in SupportingEndpoints
            /\ conn.result.value.endpoint = conn.endpoints[conn.result.value.index]
            /\ \A j \in SupportingEndpoints :
                  conn.endpoints[j].security_level
                     <= conn.result.value.endpoint.security_level

\* the second of two endpoints was selected although the first, which does not
\* support the token, has the higher security level
C20_Witness ==
    /\ conn.op = "connect_to_best_endpoint"
    /\ conn.secure
    /\ conn.user_identity_token = "UserName"
    /\ Len(conn.endpoints) = 2
    /\ conn.endpoints[1].security_level > conn.endpoints[2].security_level
    /\ SupportingEndpoints = {2}
    /\ conn.result = Ok([index |-> 2, endpoint |-> conn.endpoints[2]])

\* the token types of the user token policies an endpoint lists
ListedTokenTypes(endpoint) ==
    IF endpoint.user_identity_tokens.some
    THEN {endpoint.user_identity_tokens.value[i] :
             i \in 1..Len(endpoint.user_identity_tokens.value)}
    ELSE {}

\* support as C21 words it: Anonymous needs no listed policy at all or a listed
\* Anonymous policy, every other token a listed policy of its type
SupportsAsClaimed(user_identity_token, endpoint) ==
    IF user_identity_token = "Anonymous"
    THEN ListedTokenTypes(endpoint) = {} \/ "Anonymous" \in ListedTokenTypes(endpoint)
    ELSE TokenTypeOf(user_identity_token) \in ListedTokenTypes(endpoint)

UnencryptedSupporting ==
    {i \in 1..Len(conn.endpoints) :
        /\ conn.endpoints[i].security_mode = "None"
        /\ SupportsAsClaimed(conn.user_identity_token, conn.endpoints[i])}

\* C21: connect_to_best_endpoint(false) selects the first listed endpoint whose
\* security_mode is None and which supports the identity token (Anonymous is
\* supported by an endpoint that lists no user token policies or lists an
\* Anonymous one, the other tokens need a listed policy of their type); it
\* never returns an endpoint of another mode and fails when there is none.
C21_FirstUnencryptedEndpoint ==
    (conn.op = "connect_to_best_endpoint" /\ ~conn.secure) =>
       IF UnencryptedSupporting = {}
       THEN ~conn.result.ok
       ELSE /\ conn.result.ok
            /\ conn.result.value.index \in UnencryptedSupporting
            /\ \A j \in UnencryptedSupporting : conn.result.value.index <= j
            /\ conn.result.value.endpoint = conn.endpoints[conn.result.value.index]
            /\ conn.result.value.endpoint.security_mode = "None"

\* C22: whenever on_data_value or on_event is invoked, the MonitoredItem handed
\* to the callback has the client_handle of the notification being delivered,
\* whatever insertions, modifications and deletions came before.
C22_CallbackItemHasNotificationHandle ==
    delivered.some =>
        \A i \in 1..Len(calls) :
            calls[i].cb \in {"on_data_value", "on_event"} =>
                calls[i].item.client_handle
                    = DeliveredData[calls[i].value[1]].items.value[calls[i].value[2]]

\* a <= b for two usize, each kept as the 64-bit two's complement integer it
\* aliases (2^64 - m is kept as -m)
UsizeLe(a, b) ==
    IF (a < 0) = (b < 0) THEN a <= b ELSE b < 0

\* C23: in every state reached from PublishLimits::new() by
\* update_message_roundtrip and update_subscriptions, for every subscription
\* count and every publish interval (zero and sub-millisecond ones included),
\* min_publish_requests <= max_publish_requests and the computation did not
\* overflow: it neither panicked nor stored a wrapped product (the exact
\* products of the model all lie far below 2^63).
C23_LimitsOrderedNoOverflow ==
    /\ ~panicked
    /\ UsizeLe(limits.min_publish_requests, limits.max_publish_requests)
    /\ limits.max_publish_requests >= 0

(***************************************************************************)
(* The bookkeeping calls of a Subscription, each recorded with its         *)
(* arguments and the subscription it was made on.                          *)
(***************************************************************************)
\* links_to_remove.iter().for_each(|i| triggered_items.remove(i))
RECURSIVE RemoveLinks(_, _)
RemoveLinks(triggered_items, links_to_remove) ==
    IF links_to_remove = <<>> THEN triggered_items
    ELSE RemoveLinks(triggered_items \ {Head(links_to_remove)}, Tail(links_to_remove))

\* links_to_add.iter().for_each(|i| triggered_items.insert(*i))
RECURSIVE InsertLinks(_, _)
InsertLinks(triggered_items, links_to_add) ==
    IF links_to_add = <<>> THEN triggered_items
    ELSE InsertLinks(triggered_items \cup {Head(links_to_add)}, Tail(links_to_add))

\* a set_triggering that adds the new links before it removes the old ones
MonitoredItem_set_triggering_add_first(item, links_to_add, links_to_remove) ==
    [item EXCEPT !.triggered_items =
        RemoveLinks(InsertLinks(@, links_to_add), links_to_remove)]

MonitoredItem_set_triggering(item, links_to_add, links_to_remove) ==
    [item EXCEPT !.triggered_items =
        InsertLinks(RemoveLinks(@, links_to_remove), links_to_add)]

set_triggering(s, triggering_item_id, links_to_add, links_to_remove) ==
    IF triggering_item_id \in DOMAIN s.monitored_items
    THEN [s EXCEPT !.monitored_items[triggering_item_id] =
            MonitoredItem_set_triggering(@, links_to_add, links_to_remove)]
    ELSE s

\* ids a triggering link may name
LinkIds == {1, 2}

\* longest links_to_add and links_to_remove
MaxLinks == 1

InitItems ==
    /\ overflow_checks = FALSE
    /\ panicked = FALSE
    /\ sub = Subscription_new
    /\ delivered = NoneValue
    /\ inbox = NoneValue
    /\ calls = <<>>
    /\ subHist = [op |-> "new"]
    /\ SubOthersIdle

ItemsUnchanged ==
    UNCHANGED <<overflow_checks, panicked, delivered, inbox, calls, seqVars, pubVars,
                cryptoVars, restVars>>

InsertMonitoredItemsStep ==
    /\ \E items \in SeqsUpTo(CreateMonitoredItems, MaxBatch) :
          /\ sub' = insert_monitored_items(sub, items)
          /\ subHist' = [op |-> "insert_monitored_items", items |-> items, pre |-> sub]
    /\ ItemsUnchanged

ModifyMonitoredItemsStep ==
    /\ \E items \in SeqsUpTo(ModifyMonitoredItems, MaxBatch) :
          /\ sub' = modify_monitored_items(sub, items)
          /\ subHist' = [op |-> "modify_monitored_items", items |-> items, pre |-> sub]
    /\ ItemsUnchanged

DeleteMonitoredItemsStep ==
    /\ \E ids \in SeqsUpTo(ItemIds, MaxBatch) :
          /\ sub' = delete_monitored_items(sub, ids)
          /\ subHist' = [op |-> "delete_monitored_items", ids |-> ids, pre |-> sub]
    /\ ItemsUnchanged

SetTriggeringStep ==
    /\ \E id \in ItemIds, links_to_add \in SeqsUpTo(LinkIds, MaxLinks),
          links_to_remove \in SeqsUpTo(LinkIds, MaxLinks) :
          /\ sub' = set_triggering(sub, id, links_to_add, links_to_remove)
          /\ subHist' = [op |-> "set_triggering", triggering_item_id |-> id,
                         links_to_add |-> links_to_add,
                         links_to_remove |-> links_to_remove, pre |-> sub]
    /\ ItemsUnchanged

NextItems ==
    \/ InsertMonitoredItemsStep
    \/ ModifyMonitoredItemsStep
    \/ DeleteMonitoredItemsStep
    \/ SetTriggeringStep

SpecItems == InitItems /\ [][NextItems]_vars

Range(q) == {q[i] : i \in 1..Len(q)}

\* the ids client_handles maps some handle to
MappedIds(s) == {s.client_handles[h] : h \in DOMAIN s.client_handles}

\* the handles client_handles maps to id
HandlesOf(s, id) == {h \in DOMAIN s.client_handles : s.client_handles[h] = id}

\* C24: after delete_monitored_items(ids), no listed id is left in
\* monitored_items and no entry of client_handles maps to a listed id; a
\* listed id that was absent has no effect; every unlisted item keeps its
\* entry in monitored_items and its entries in client_handles.
C24_DeleteRemovesBothEntries ==
    subHist.op = "delete_monitored_items" =>
        LET pre    == subHist.pre
            listed == Range(subHist.ids)
        IN  /\ DOMAIN sub.monitored_items = DOMAIN pre.monitored_items \ listed
            /\ MappedIds(sub) \cap listed = {}
            /\ listed \cap DOMAIN pre.monitored_items = {} => sub = pre
            /\ \A id \in DOMAIN pre.monitored_items \ listed :
                  /\ sub.monitored_items[id] = pre.monitored_items[id]
                  /\ HandlesOf(sub, id) = HandlesOf(pre, id)

\* C25: legacy_secret_decrypt never aborts and never indexes out of range,
\* whatever plaintext the secret decrypts to, and it returns a decoding error
\* when the length the plaintext declares is smaller than the length of the
\* server nonce.
C25_DecryptNeverAborts ==
    token.op = "decrypt_raw" =>
        /\ token.result # Panic
        /\ (/\ token.secret.some
            /\ Len(token.secret.value.data) >= 4
            /\ DeclaredSmall(token.secret.value.data)
            /\ DeclaredLength(token.secret.value.data) < Len(token.server_nonce))
              => token.result = Err("BadDecodingError")

\* the fields of a monitored item that modify_monitored_items does not set
FrameOf(item) ==
    [id |-> item.id, client_handle |-> item.client_handle,
     item_to_monitor |-> item.item_to_monitor,
     monitoring_mode |-> item.monitoring_mode,
     discard_oldest |-> item.discard_oldest, filter |-> item.filter,
     triggered_items |-> item.triggered_items]

\* C26: modify_monitored_items changes nothing but the sampling_interval and
\* queue_size of the listed items that exist: both maps keep their entries, every
\* item keeps its id, client_handle, monitoring mode, discard_oldest, filter and
\* triggered items, an unlisted item is left as it was, and a call that lists
\* only unknown ids leaves the subscription unchanged.
C26_ModifyTouchesOnlyListedSettings ==
    subHist.op = "modify_monitored_items" =>
        LET pre    == subHist.pre
            listed == {subHist.items[i].id : i \in 1..Len(subHist.items)}
        IN  /\ DOMAIN sub.monitored_items = DOMAIN pre.monitored_items
            /\ sub.client_handles = pre.client_handles
            /\ \A id \in DOMAIN pre.monitored_items :
                  /\ FrameOf(sub.monitored_items[id]) = FrameOf(pre.monitored_items[id])
                  /\ id \notin listed => sub.monitored_items[id] = pre.monitored_items[id]
            /\ listed \cap DOMAIN pre.monitored_items = {} => sub = pre

\* C26 witness: of two monitored items, one of them with a triggering link, the
\* first was listed and got a new sampling interval and queue size; the call
\* also listed an id that was not monitored
C26_Witness ==
    /\ subHist.op = "modify_monitored_items"
    /\ DOMAIN subHist.pre.monitored_items = {1}
    /\ subHist.pre.monitored_items[1].triggered_items = {2}
    /\ {subHist.items[i].id : i \in 1..Len(subHist.items)} = {1, 2}
    /\ sub.monitored_items[1].sampling_interval = 100
    /\ sub.monitored_items[1].queue_size = 5
    /\ subHist.pre.monitored_items[1].sampling_interval = 0

\* C27: set_triggering on a monitored triggering_item_id sets its
\* triggered_items to (the previous set minus links_to_remove) union
\* links_to_add, so that an id in both lists is in the set afterwards; no other
\* field, no other item and neither map's key set changes; on an unknown
\* triggering_item_id nothing changes.
C27_SetTriggering ==
    subHist.op = "set_triggering" =>
        LET pre == subHist.pre
            id  == subHist.triggering_item_id
            add == Range(subHist.links_to_add)
            rem == Range(subHist.links_to_remove)
        IN  IF id \in DOMAIN pre.monitored_items
            THEN /\ sub.monitored_items[id].triggered_items
                        = (pre.monitored_items[id].triggered_items \ rem) \cup add
                 /\ add \cap rem \subseteq sub.monitored_items[id].triggered_items
                 /\ [sub.monitored_items[id] EXCEPT !.triggered_items = {}]
                        = [pre.monitored_items[id] EXCEPT !.triggered_items = {}]
                 /\ DOMAIN sub.monitored_items = DOMAIN pre.monitored_items
                 /\ DOMAIN sub.client_handles = DOMAIN pre.client_handles
                 /\ sub.client_handles = pre.client_handles
                 /\ \A other \in DOMAIN pre.monitored_items \ {id} :
                        sub.monitored_items[other] = pre.monitored_items[other]
            ELSE sub = pre

\* C27 witness: item 1 triggered item 2, and set_triggering(1, [1], [1]) left it
\* triggering 1 and 2, beside a second monitored item
C27_Witness ==
    /\ subHist.op = "set_triggering"
    /\ subHist.triggering_item_id = 1
    /\ subHist.links_to_add = <<1>>
    /\ subHist.links_to_remove = <<1>>
    /\ DOMAIN subHist.pre.monitored_items = {1, 2}
    /\ subHist.pre.monitored_items[1].triggered_items = {2}
    /\ sub.monitored_items[1].triggered_items = {1, 2}

(***************************************************************************)
(* One handle is incremented by a and then by b, a second handle that      *)
(* starts from the same value is incremented once by a + b.                *)
(***************************************************************************)
SplitStarts ==
    {U32Of(0), U32Of(1), U32Of(2), U32MaxMinus(1025), U32MaxMinus(1024),
     U32MaxMinus(1), U32Max}

SplitValues == IncrementValues \cup {U32Of(2), U32MaxMinus(1024)}

\* a + b is a u32 and is at most the number of values of the mode's range:
\* max_value - min_value + 1 = u32::MAX - 1024 in legacy mode, 2^32 otherwise
SumWithinRange(is_legacy, a, b) ==
    /\ ~U32AddOvf(a, b)
    /\ is_legacy => U32Le(U32AddW(a, b), U32MaxMinus(LegacyGap))

InitSplit ==
    /\ overflow_checks \in BOOLEAN
    /\ panicked = FALSE
    /\ \E is_legacy \in BOOLEAN, v \in SplitStarts, a \in SplitValues, b \in SplitValues :
          /\ seq = set(SequenceNumberHandle_new(is_legacy), v)
          /\ InRange(seq)
          /\ SumWithinRange(is_legacy, a, b)
          /\ seqHist = [origin |-> "split", a |-> a, b |-> b, start |-> seq,
                        step |-> 0, single |-> seq, singleDone |-> FALSE]
    /\ SeqOthersIdle

SplitUnchanged == UNCHANGED <<overflow_checks, subVars, pubVars, cryptoVars, restVars>>

\* increment(a), then increment(b), on the first handle
IncrementFirst ==
    /\ ~panicked
    /\ seqHist.step = 0
    /\ LET r == increment(seq, seqHist.a, overflow_checks)
       IN  /\ seq' = r.h
           /\ panicked' = r.panic
           /\ seqHist' = [seqHist EXCEPT !.step = 1]
    /\ SplitUnchanged

IncrementSecond ==
    /\ ~panicked
    /\ seqHist.step = 1
    /\ LET r == increment(seq, seqHist.b, overflow_checks)
       IN  /\ seq' = r.h
           /\ panicked' = r.panic
           /\ seqHist' = [seqHist EXCEPT !.step = 2]
    /\ SplitUnchanged

\* increment(a + b) on the second handle
IncrementOnce ==
    /\ ~panicked
    /\ ~seqHist.singleDone
    /\ LET r == increment(seqHist.single, U32AddW(seqHist.a, seqHist.b), overflow_checks)
       IN  /\ seqHist' = [seqHist EXCEPT !.single = r.h, !.singleDone = TRUE]
           /\ panicked' = r.panic
    /\ UNCHANGED seq
    /\ SplitUnchanged

NextSplit == IncrementFirst \/ IncrementSecond \/ IncrementOnce

SpecSplit == InitSplit /\ [][NextSplit]_vars

\* C28: for a handle of either mode whose current value is within the mode's
\* range and a, b whose sum is a u32 not above the number of values of the
\* range, no call panics, and increment(a) followed by increment(b) leaves the
\* current value that a single increment(a + b) leaves.
C28_IncrementSplits ==
    /\ ~panicked
    /\ (seqHist.step = 2 /\ seqHist.singleDone) =>
          current(seq) = current(seqHist.single)

\* C28 witness: from u32::MAX - 1025 in legacy mode, increment(3) wrapped to 2
\* and increment(1022) went on to 1024, where increment(1025) arrived as well
C28_Witness ==
    /\ seqHist.step = 2
    /\ seqHist.singleDone
    /\ seqHist.start = set(SequenceNumberHandle_new(TRUE), U32MaxMinus(1025))
    /\ seqHist.a = U32Of(3)
    /\ seqHist.b = U32Of(1022)
    /\ current(seq) = U32Of(1024)

====
